---- MODULE Spec2Model ----
(***************************************************************************)
(* State-machine model of the VDA5050 client runtime:                      *)
(*   - MQTTAbstraction   (src/src/vda5050/core/mqtt_abstraction.py)        *)
(*   - VDA5050BaseClient (src/src/vda5050/core/base_client.py)             *)
(*   - AGVClient         (src/build/lib/vda5050/clients/agv.py)            *)
(* One action per coroutine segment between two suspension points, per     *)
(* transport callback and per API call.                                    *)
(***************************************************************************)
EXTENDS Integers, Sequences, FiniteSets, TLC

\* ------------------------------------------------------------------ bounds
MaxProcs == 2           \* _message_processor tasks alive at the same time
MaxRecon == 2           \* _reconnect tasks alive at the same time
MaxAttempts == 1        \* failed attempts of one _reconnect task
BackoffRecon == 1       \* _reconnect tasks alive at the same time (SpecBackoff)
MaxBackoffAttempts == 7 \* failed attempts of one _reconnect task (SpecBackoff)
MaxMsgs == 2            \* inbound messages the transport delivers (SpecDispatch)
MaxSubs == 1            \* subscribe() calls on the session (SpecDispatch)
RouteMsgs == 1          \* inbound messages the transport delivers (SpecRoute)
RouteSubs == 2          \* subscribe() calls on the session (SpecRoute)
MaxPublished == 1       \* send_state() calls of the client (SpecClient)
CorePublished == 2      \* publish calls (SpecCore, SpecPublish)
MaxCallbacks == 2       \* state callbacks registered on the master (SpecMaster)
MasterMsgs == 2         \* state messages the transport delivers (SpecMaster)
WrapMsgs == 3           \* inbound messages the transport delivers (SpecWrapper)
MaxRegistered == 3      \* entries of _registered_handlers (SpecRegister)
QueueMsgs == 2          \* inbound messages the transport delivers (SpecQueue)
StopMsgs == 1           \* inbound messages the transport delivers (SpecStop)
RegisterMsgs == 1       \* orders published at the broker (SpecRegister)
SameRegistered == 5     \* entries of _registered_handlers (SpecSame)
SameMsgs == 1           \* messages published at the broker (SpecSame)
AgvMsgs == 2            \* messages published at the broker for AGVs (SpecAgv)
SendCalls == 1          \* publish calls made on the client (SpecSend)

\* ------------------------------------------------------- program constants
InitialDelay == 1       \* _reconnect: delay = 1
BackoffFactor == 2      \* _reconnect: delay * 2
MaxDelay == 60          \* _reconnect: min(..., 60)

\* ---------------------------------------------------------------- topics
\* A topic is the sequence of its characters.
TopicAB == <<"a", "/", "b">>
TopicAC == <<"a", "/", "c">>
PatAPlus == <<"a", "/", "+">>
PatHash == <<"#">>

\* topics of the messages the broker delivers
MsgTopics == {TopicAB, TopicAC}
\* topics handed to subscribe()
SubTopics == {TopicAB, PatAPlus, PatHash}

\* A handler subscribed directly on the session is a plain coroutine that may
\* raise; the k-th subscribe() call of a run registers handler k.  The
\* message_wrapper of the client's i-th registration is handler -i.
NoHandler == 0

\* ------------------------------------------------- dict (insertion ordered)
\* A Python dict is a sequence of [key, val] records in insertion order.
DictHas(d, k) == \E i \in 1..Len(d) : d[i].key = k

DictGet(d, k) == d[CHOOSE i \in 1..Len(d) : d[i].key = k].val

\* a d[k] = v that moves an existing key to the end of the iteration order
DictSetMoveToEnd(d, k, v) ==
    SelectSeq(d, LAMBDA e : e.key # k) \o <<[key |-> k, val |-> v]>>

\* d[k] = v : an existing key keeps its position, a new key goes to the end
DictSet(d, k, v) ==
    IF DictHas(d, k)
    THEN [i \in 1..Len(d) |-> IF d[i].key = k THEN [key |-> k, val |-> v] ELSE d[i]]
    ELSE Append(d, [key |-> k, val |-> v])

\* ------------------------------------------------------- wildcard matching
\* pattern.replace('+', '[^/]+').replace('#', '.*') : one regex token per
\* pattern character.  No character of the pattern is escaped: a '.' of the
\* pattern is the regex token '.', any one character but a newline (the
\* alphabet holds no newline and no other regex metacharacter).
Regex(pattern) ==
    [i \in 1..Len(pattern) |->
        IF pattern[i] = "+" THEN "[^/]+"
        ELSE IF pattern[i] = "#" THEN ".*"
        ELSE pattern[i]]

Drop(s, n) == SubSeq(s, n + 1, Len(s))

\* re.match('^' + regex + '$', topic)
RECURSIVE ReMatch(_, _)
ReMatch(regex, topic) ==
    IF regex = <<>> THEN topic = <<>>
    ELSE IF Head(regex) = "[^/]+"
    THEN \E n \in 1..Len(topic) :
            /\ \A i \in 1..n : topic[i] # "/"
            /\ ReMatch(Tail(regex), Drop(topic, n))
    ELSE IF Head(regex) = ".*"
    THEN \E n \in 0..Len(topic) : ReMatch(Tail(regex), Drop(topic, n))
    ELSE IF Head(regex) = "."
    THEN /\ topic # <<>>
         /\ ReMatch(Tail(regex), Tail(topic))
    ELSE /\ topic # <<>>
         /\ Head(topic) = Head(regex)
         /\ ReMatch(Tail(regex), Tail(topic))

IsWildcard(topic) == \E i \in 1..Len(topic) : topic[i] \in {"+", "#"}

\* for pattern, handler in self._wildcard_handlers.items(): first match wins
RECURSIVE FirstWildcard(_, _)
FirstWildcard(wild, topic) ==
    IF wild = <<>> THEN NoHandler
    ELSE IF ReMatch(Regex(Head(wild).key), topic) THEN Head(wild).val
    ELSE FirstWildcard(Tail(wild), topic)

\* a routing that tries the wildcard patterns before the exact map
RouteWildcardFirst(exact, wild, topic) ==
    IF FirstWildcard(wild, topic) # NoHandler THEN FirstWildcard(wild, topic)
    ELSE IF DictHas(exact, topic) THEN DictGet(exact, topic)
    ELSE NoHandler

\* _route: the handler the message is delivered to, NoHandler when dropped
Route(exact, wild, topic) ==
    IF DictHas(exact, topic) THEN DictGet(exact, topic)
    ELSE FirstWildcard(wild, topic)

Min(a, b) == IF a <= b THEN a ELSE b

\* a queue that hands out the newest message first
QueuePutFront(q, m) == <<m>> \o q

\* asyncio.Queue.put on the unbounded FIFO queue
QueuePut(q, m) == Append(q, m)

\* a backoff that doubles without the cap
NextDelayNoCap(d) == d * BackoffFactor

\* delay = min(delay * 2, 60)
NextDelay(d) == Min(d * BackoffFactor, MaxDelay)


\* ------------------------------------------------------------------- state
VARIABLES
    state,             \* MQTTAbstraction._state
    connection_event,  \* MQTTAbstraction._connection_event (is set)
    message_queue,     \* MQTTAbstraction._message_queue
    handlers,          \* MQTTAbstraction._handlers
    wildcard_handlers, \* MQTTAbstraction._wildcard_handlers
    running,           \* MQTTAbstraction._running
    net,               \* the paho client's connection: down, handshake, up, closing
    conn,              \* position of each connect() call: caller 0 is the API
                       \* caller, caller r >= 1 is _reconnect task r
    delay,             \* local variable delay of each _reconnect task
    waits,             \* the delays each _reconnect task has slept, in order
    nNew,              \* _message_processor tasks created, not yet run
    nGet,              \* _message_processor tasks suspended in queue.get()
    busy,              \* handler invocations started and not finished
    arrived,           \* number of messages the transport has delivered
    dispatched,        \* handler invocations in the order they started
    raised,            \* number of handler invocations that raised
    stopped,           \* disconnect() was called while a _reconnect task was
                       \* active, and connect() has not been called since
    subs,              \* number of subscribe() calls made on the session
    live,              \* topic filters subscribed at the broker in the
                       \* transport's current (clean) session
    connected,         \* VDA5050BaseClient._connected
    registered_handlers, \* VDA5050BaseClient._registered_handlers
    has_factsheet,     \* AGVClient has the attribute _factsheet
    published,         \* what has been handed to the transport's publish
    hook_failed,       \* the pre-disconnect hook of the last disconnect()
                       \* call did not publish its announcement, or raised
    steps,             \* what the last connect() call of the client has
                       \* done, in order
    validate,          \* VDA5050BaseClient.validator is not None
    last_publish,      \* the last publish call: its inputs and its result
    state_callbacks,   \* MasterControlClient._state_callbacks (their number)
    reported,          \* invocations of state callbacks, in order
    delivered,         \* invocations of user-level handlers by a
                       \* message_wrapper, in order
    sent,              \* sender and payload of each message the transport
                       \* has delivered, in order of arrival
    repeated,          \* the calls that have been made where they had
                       \* nothing to do: connect() on a connected session or
                       \* client, disconnect() on a disconnected one
    topic_manager,     \* a TopicManager: interface, major_version,
                       \* manufacturer, serial_number
    topic_out,         \* the last call made on topic_manager and its result
    route_out          \* the last lookup of a topic in the tables that
                       \* subscribe() fills for one topic filter, and the
                       \* handler found

sessionVars == <<state, connection_event, message_queue, handlers,
                 wildcard_handlers, running, net, conn, delay, waits, nNew,
                 nGet, busy, arrived, dispatched, raised, stopped, subs, live>>

inboundVars == <<state_callbacks, reported, delivered, sent>>

topicVars == <<topic_manager, topic_out, route_out>>

coreVars == <<connected, registered_handlers, has_factsheet, published,
              hook_failed, steps, validate, last_publish, inboundVars,
              topicVars>>

clientVars == <<coreVars, repeated>>

ReconIds == 1..MaxRecon
Callers == 0..MaxRecon

ConnectionState == {"DISCONNECTED", "CONNECTING", "CONNECTED", "RECONNECTING"}

ProcsAlive == nNew + nGet + Cardinality(busy)

ReconActive(r) == conn[r] # "free"

\* MQTTAbstraction.__init__
SessionInit ==
    /\ state = "DISCONNECTED"
    /\ connection_event = FALSE
    /\ message_queue = <<>>
    /\ handlers = <<>>
    /\ wildcard_handlers = <<>>
    /\ running = FALSE
    /\ net = "down"
    /\ conn = [c \in Callers |-> IF c = 0 THEN "idle" ELSE "free"]
    /\ delay = [r \in ReconIds |-> InitialDelay]
    /\ waits = [r \in ReconIds |-> <<>>]
    /\ nNew = 0
    /\ nGet = 0
    /\ busy = {}
    /\ arrived = 0
    /\ dispatched = <<>>
    /\ raised = 0
    /\ stopped = FALSE
    /\ subs = 0
    /\ live = {}

\* a loop that returns after any attempt, failed or not
GivesUp(ok, st) == FALSE

\* _reconnect after an attempt: `if success: return`, else the loop goes on
\* while self._state != CONNECTED
KeepsTrying(ok, st) == ~ok /\ st # "CONNECTED"

\* ------------------------------------------------ connect(): return to caller
\* What happens when connect() returns `ok` to caller c, the session state
\* being st at that moment.  The API caller records the result.  _reconnect
\* returns on success; on failure it doubles delay and re-evaluates
\* `while self._state != CONNECTED`, then sleeps again.
ReturnTo(c, ok, st) ==
    IF c = 0
    THEN /\ conn' = [conn EXCEPT ![0] = "idle"]
         /\ UNCHANGED <<delay, waits>>
    ELSE IF KeepsTrying(ok, st)
         THEN /\ conn' = [conn EXCEPT ![c] = "sleep"]
              /\ delay' = [delay EXCEPT ![c] = NextDelay(delay[c])]
              /\ waits' = [waits EXCEPT ![c] = Append(@, NextDelay(delay[c]))]
         ELSE /\ conn' = [conn EXCEPT ![c] = "free"]
              /\ delay' = [delay EXCEPT ![c] = InitialDelay]
              /\ waits' = [waits EXCEPT ![c] = <<>>]

\* a failure may be injected into this connect() call (cap on the attempts)
MayFail(c, cap) == IF c = 0 THEN TRUE ELSE Len(waits[c]) <= cap

\* ----------------------------------------------------------- connect()
\* a connect() without the guard of its first line
NeverAlreadyConnected(st) == FALSE

\* connect(): `if self._state == ConnectionState.CONNECTED: return True`
AlreadyConnected(st) == st = "CONNECTED"

\* connect(), first segment, called by the API caller (lines 82-94).
ApiConnect ==
    /\ conn[0] = "idle"
    /\ stopped' = FALSE
    /\ IF AlreadyConnected(state)
       THEN /\ repeated' = repeated \cup {"mqtt.connect"}
            /\ UNCHANGED <<state, conn>>
       ELSE /\ state' = "CONNECTING"
            /\ conn' = [conn EXCEPT ![0] = "transport"]
            /\ UNCHANGED repeated
    /\ UNCHANGED <<connection_event, message_queue, handlers, wildcard_handlers,
                   running, net, delay, waits, nNew, nGet, busy, arrived,
                   dispatched, raised, subs>>
    /\ UNCHANGED <<live, coreVars>>

\* self._client.connect raised in the executor: except -> return False
TransportConnectFail(c, cap) ==
    /\ conn[c] = "transport"
    /\ MayFail(c, cap)
    /\ net' = "down"
    /\ ReturnTo(c, FALSE, state)
    /\ UNCHANGED <<state, connection_event, message_queue, handlers,
                   wildcard_handlers, running, nNew, nGet, busy, arrived,
                   dispatched, raised, subs, stopped>>
    /\ UNCHANGED <<live, clientVars>>

\* self._client.connect returned, loop_start(), then wait_for(event.wait())
TransportConnectOk(c) ==
    /\ conn[c] = "transport"
    /\ net' = "handshake"
    /\ conn' = [conn EXCEPT ![c] = IF connection_event THEN "woken" ELSE "wait"]
    /\ UNCHANGED <<state, connection_event, message_queue, handlers,
                   wildcard_handlers, running, delay, waits, nNew, nGet, busy,
                   arrived, dispatched, raised, stopped, subs>>
    /\ UNCHANGED <<live, clientVars>>

\* wait_for timed out: except -> return False
ConnectTimeout(c, cap) ==
    /\ conn[c] = "wait"
    /\ MayFail(c, cap)
    /\ ReturnTo(c, FALSE, state)
    /\ UNCHANGED <<state, connection_event, message_queue, handlers,
                   wildcard_handlers, running, net, nNew, nGet, busy, arrived,
                   dispatched, raised, subs, stopped>>
    /\ UNCHANGED <<live, clientVars>>

\* the event was set: self._running = True, create_task(_message_processor),
\* return True
ConnectResume(c) ==
    /\ conn[c] = "woken"
    /\ ProcsAlive < MaxProcs
    /\ running' = TRUE
    /\ nNew' = nNew + 1
    /\ ReturnTo(c, TRUE, state)
    /\ UNCHANGED <<state, connection_event, message_queue, handlers,
                   wildcard_handlers, net, nGet, busy, arrived, dispatched,
                   raised, subs, stopped>>
    /\ UNCHANGED <<live, clientVars>>

\* ----------------------------------------------------------- disconnect()
\* a disconnect() that tells the transport to disconnect in every state
TransportDisconnectsAlways(st) == TRUE

\* disconnect(): `if self._state == ConnectionState.CONNECTED:` loop_stop()
\* and self._client.disconnect()
TransportDisconnects(st) == st = "CONNECTED"

SessionDisconnect ==
    /\ running' = FALSE
    /\ net' = IF TransportDisconnects(state) THEN "closing" ELSE net
    /\ state' = "DISCONNECTED"
    /\ stopped' = (stopped \/ \E r \in ReconIds : ReconActive(r))
    /\ repeated' = IF state = "DISCONNECTED" /\ ~running
                   THEN repeated \cup {"mqtt.disconnect"}
                   ELSE repeated
    /\ UNCHANGED <<connection_event, message_queue, handlers, wildcard_handlers,
                   conn, delay, waits, nNew, nGet, busy, arrived, dispatched,
                   raised, subs, live>>

Disconnect ==
    /\ SessionDisconnect
    /\ UNCHANGED coreVars

\* ------------------------------------------------------------ subscribe()
\* the transport accepted the subscription (its connection is up): the
\* handler is stored
Subscribe(topic, cap) ==
    /\ net = "up"
    /\ subs < cap
    /\ subs' = subs + 1
    /\ live' = live \cup {topic}
    /\ IF IsWildcard(topic)
       THEN /\ wildcard_handlers' = DictSet(wildcard_handlers, topic, subs + 1)
            /\ UNCHANGED handlers
       ELSE /\ handlers' = DictSet(handlers, topic, subs + 1)
            /\ UNCHANGED wildcard_handlers
    /\ UNCHANGED <<state, connection_event, message_queue, running, net, conn,
                   delay, waits, nNew, nGet, busy, arrived, dispatched, raised, stopped>>
    /\ UNCHANGED clientVars

\* ---------------------------------------------------- transport callbacks
\* _on_connect with rc == 0: state CONNECTED, the event is set and every
\* connect() suspended in event.wait() is released.  The client is created
\* with paho's default clean session: the broker starts the connection with
\* no subscriptions.
OnConnect ==
    /\ net = "handshake"
    /\ net' = "up"
    /\ live' = {}
    /\ state' = "CONNECTED"
    /\ connection_event' = TRUE
    /\ conn' = [c \in Callers |-> IF conn[c] = "wait" THEN "woken" ELSE conn[c]]
    /\ UNCHANGED <<message_queue, handlers, wildcard_handlers, running, delay,
                   waits, nNew, nGet, busy, arrived, dispatched, raised, stopped, subs>>
    /\ UNCHANGED clientVars

\* _on_connect with rc != 0: logged only
OnConnectRefused ==
    /\ net = "handshake"
    /\ net' = "down"
    /\ UNCHANGED <<state, connection_event, message_queue, handlers,
                   wildcard_handlers, running, conn, delay, waits, nNew, nGet,
                   busy, arrived, dispatched, raised, stopped, subs>>
    /\ UNCHANGED <<live, clientVars>>

\* an _on_disconnect that starts _reconnect for every reason code
StartsReconnectAlways(rc) == TRUE

\* _on_disconnect: `if rc != 0:`
StartsReconnect(rc) == rc # 0

\* _on_disconnect, its last two lines for reason code rc:
\* create_task(self._reconnect()) in the first free task slot
ReconnectTask(rc, slots) ==
    IF StartsReconnect(rc)
    THEN \E r \in 1..slots :
            /\ conn[r] = "free"
            /\ \A q \in ReconIds : q < r => conn[q] # "free"
            /\ conn' = [conn EXCEPT ![r] = "new"]
            /\ waits' = [waits EXCEPT ![r] = <<>>]
    ELSE UNCHANGED <<conn, waits>>

\* _on_disconnect with rc != 0: create_task(self._reconnect())
OnDrop(slots) ==
    /\ net \in {"handshake", "up"}
    /\ ReconnectTask(1, slots)
    /\ net' = "down"
    /\ state' = "DISCONNECTED"
    /\ connection_event' = FALSE
    /\ UNCHANGED <<message_queue, handlers, wildcard_handlers, running, delay,
                   nNew, nGet, busy, arrived, dispatched, raised,
                   stopped, subs>>
    /\ UNCHANGED <<live, clientVars>>

\* _on_disconnect with rc == 0, after self._client.disconnect()
OnDisconnectGraceful ==
    /\ net = "closing"
    /\ ReconnectTask(0, MaxRecon)
    /\ net' = "down"
    /\ state' = "DISCONNECTED"
    /\ connection_event' = FALSE
    /\ UNCHANGED <<message_queue, handlers, wildcard_handlers, running,
                   delay, nNew, nGet, busy, arrived, dispatched, raised, stopped, subs>>
    /\ UNCHANGED <<live, clientVars>>

\* _on_message: the (topic, payload) pair is put on the queue
OnMessage(topic, cap) ==
    /\ net = "up"
    /\ arrived < cap
    /\ arrived' = arrived + 1
    /\ message_queue' = QueuePut(message_queue, [topic |-> topic, seq |-> arrived + 1])
    /\ UNCHANGED <<state, connection_event, handlers, wildcard_handlers, running,
                   net, conn, delay, waits, nNew, nGet, busy, dispatched, raised, stopped, subs>>
    /\ UNCHANGED <<live, clientVars>>

\* --------------------------------------------------------------- _reconnect
\* first run of the task: delay = 1, `while self._state != CONNECTED`, sleep
ReconnectStart(r) ==
    /\ conn[r] = "new"
    /\ delay' = [delay EXCEPT ![r] = InitialDelay]
    /\ IF state = "CONNECTED"
       THEN /\ conn' = [conn EXCEPT ![r] = "free"]
            /\ UNCHANGED waits
       ELSE /\ conn' = [conn EXCEPT ![r] = "sleep"]
            /\ waits' = [waits EXCEPT ![r] = <<InitialDelay>>]
    /\ UNCHANGED <<state, connection_event, message_queue, handlers,
                   wildcard_handlers, running, net, nNew, nGet, busy, arrived,
                   dispatched, raised, subs, stopped>>
    /\ UNCHANGED <<live, clientVars>>

\* the sleep is over: success = await self.connect(), first segment
ReconnectWake(r) ==
    /\ conn[r] = "sleep"
    /\ IF AlreadyConnected(state)
       THEN /\ ReturnTo(r, TRUE, state)
            /\ UNCHANGED state
       ELSE /\ state' = "CONNECTING"
            /\ conn' = [conn EXCEPT ![r] = "transport"]
            /\ UNCHANGED <<delay, waits>>
    /\ UNCHANGED <<connection_event, message_queue, handlers, wildcard_handlers,
                   running, net, nNew, nGet, busy, arrived, dispatched, raised, subs, stopped>>
    /\ UNCHANGED <<live, clientVars>>

\* ------------------------------------------------------- _message_processor
\* first run of the task: `while self._running`
ProcStart ==
    /\ nNew > 0
    /\ nNew' = nNew - 1
    /\ nGet' = IF running THEN nGet + 1 ELSE nGet
    /\ UNCHANGED <<state, connection_event, message_queue, handlers,
                   wildcard_handlers, running, net, conn, delay, waits, busy,
                   arrived, dispatched, raised, stopped, subs>>
    /\ UNCHANGED <<live, clientVars>>

\* queue.get() returned a message: _route.  With a handler the invocation
\* starts; with none the message is dropped and the loop condition is
\* evaluated again.
ProcGet ==
    /\ nGet > 0
    /\ message_queue # <<>>
    /\ LET m == Head(message_queue)
           h == Route(handlers, wildcard_handlers, m.topic)
       IN  /\ message_queue' = Tail(message_queue)
           /\ IF h = NoHandler
              THEN /\ nGet' = IF running THEN nGet ELSE nGet - 1
                   /\ UNCHANGED <<busy, dispatched>>
              ELSE /\ nGet' = nGet - 1
                   /\ busy' = busy \cup {[seq |-> m.seq, topic |-> m.topic, handler |-> h]}
                   /\ dispatched' = Append(dispatched,
                          [seq |-> m.seq, topic |-> m.topic, handler |-> h])
    /\ UNCHANGED <<state, connection_event, handlers, wildcard_handlers, running,
                   net, conn, delay, waits, nNew, arrived, raised,
                   stopped, subs>>
    /\ UNCHANGED <<live, clientVars>>

\* the handler returned: back to `while self._running`
HandlerReturn(b) ==
    /\ b \in busy
    /\ busy' = busy \ {b}
    /\ nGet' = IF running THEN nGet + 1 ELSE nGet
    /\ UNCHANGED <<state, connection_event, message_queue, handlers,
                   wildcard_handlers, running, net, conn, delay, waits, nNew,
                   arrived, dispatched, raised, stopped, subs>>
    /\ UNCHANGED <<live, clientVars>>

\* the handler raised: only asyncio.TimeoutError is caught, the exception
\* leaves _message_processor and the task ends
HandlerRaise(b) ==
    /\ b \in busy
    /\ b.handler > 0
    /\ busy' = busy \ {b}
    /\ raised' = raised + 1
    /\ UNCHANGED <<state, connection_event, message_queue, handlers,
                   wildcard_handlers, running, net, conn, delay, waits, nNew,
                   nGet, arrived, dispatched, stopped, subs>>
    /\ UNCHANGED <<live, clientVars>>

\* a loop that waits in queue.get() without a timeout
LoopBlocked(is_running) == FALSE

\* `while self._running:` evaluated after wait_for raised TimeoutError
LoopExits(is_running) == ~is_running

\* wait_for(queue.get(), 1.0) timed out on an empty queue and the loop
\* condition is false: the task ends
ProcPollExit ==
    /\ nGet > 0
    /\ message_queue = <<>>
    /\ LoopExits(running)
    /\ nGet' = nGet - 1
    /\ UNCHANGED <<state, connection_event, message_queue, handlers,
                   wildcard_handlers, running, net, conn, delay, waits, nNew,
                   busy, arrived, dispatched, raised, stopped, subs>>
    /\ UNCHANGED <<live, clientVars>>

\* ------------------------------------------------------------ TopicManager
\* the identity of the client; a name is one token without '/', '+', '#'
InterfaceName == <<"uagv">>
Version == <<"2", ".", "1", ".", "0">>
Manufacturer == <<"M">>
SerialNumber == <<"S">>

RECURSIVE TakeUntil(_, _)
TakeUntil(s, sep) ==
    IF s = <<>> \/ Head(s) = sep THEN <<>>
    ELSE <<Head(s)>> \o TakeUntil(Tail(s), sep)

MESSAGE_TYPES ==
    {"order", "state", "connection", "factsheet", "instantActions", "visualization"}

\* TopicManager.__init__: major_version = version.split(".")[0]
TopicManager(interface_name, version, manufacturer, serial_number) ==
    [interface |-> interface_name, major_version |-> TakeUntil(version, "."),
     manufacturer |-> manufacturer, serial_number |-> serial_number]

\* the TopicManager the client builds from its identity
OwnManager == TopicManager(InterfaceName, Version, Manufacturer, SerialNumber)

\* version.split(".")[0]
MajorVersion == OwnManager.major_version

\* _base_topic of a TopicManager
BaseTopicOf(tm) ==
    tm.interface \o <<"/", "v">> \o tm.major_version \o <<"/">> \o tm.manufacturer
        \o <<"/">> \o tm.serial_number

\* a topic builder raised ValueError
NoTopic == [ok |-> FALSE, topic |-> <<>>]

\* get_publish_topic of a TopicManager: ValueError for a message type that is
\* not in MESSAGE_TYPES
GetPublishTopicOf(tm, message_type) ==
    IF message_type \notin MESSAGE_TYPES THEN NoTopic
    ELSE [ok |-> TRUE, topic |-> BaseTopicOf(tm) \o <<"/", message_type>>]

\* get_subscription_topic of a TopicManager
GetSubscriptionTopicOf(tm, message_type, all_manufacturers, all_serials) ==
    IF message_type \notin MESSAGE_TYPES THEN NoTopic
    ELSE [ok |-> TRUE,
          topic |-> tm.interface \o <<"/", "v">> \o tm.major_version \o <<"/">>
                    \o (IF all_manufacturers THEN <<"+">> ELSE tm.manufacturer)
                    \o <<"/">>
                    \o (IF all_serials THEN <<"+">> ELSE tm.serial_number)
                    \o <<"/", message_type>>]

\* parse_topic raised ValueError
NoTopicInfo ==
    [ok |-> FALSE, interface |-> <<>>, version |-> <<>>, manufacturer |-> <<>>,
     serialNumber |-> <<>>, messageType |-> <<>>]

\* no topic has been looked up
NoRoute == [called |-> FALSE, pattern |-> <<>>, topic |-> <<>>, handler |-> NoHandler]

\* no call has been made on topic_manager
NoTopicCall ==
    [op |-> "none", message_type |-> "", built |-> "", topic |-> <<>>,
     ok |-> FALSE, info |-> NoTopicInfo]

\* _base_topic
BaseTopic == BaseTopicOf(OwnManager)

\* get_publish_topic, for a message type of MESSAGE_TYPES
GetPublishTopic(message_type) == GetPublishTopicOf(OwnManager, message_type).topic

\* a get_subscription_topic that puts '+' for the serial number in every case
GetSubscriptionTopicAnySerial(message_type, all_manufacturers, all_serials) ==
    InterfaceName \o <<"/", "v">> \o MajorVersion \o <<"/">>
        \o (IF all_manufacturers THEN <<"+">> ELSE Manufacturer)
        \o <<"/", "+", "/", message_type>>

\* get_subscription_topic, for a message type of MESSAGE_TYPES
GetSubscriptionTopic(message_type, all_manufacturers, all_serials) ==
    GetSubscriptionTopicOf(OwnManager, message_type, all_manufacturers,
                           all_serials).topic

\* get_target_topic, for a message type of MESSAGE_TYPES
GetTargetTopic(message_type, target_manufacturer, target_serial) ==
    InterfaceName \o <<"/", "v">> \o MajorVersion \o <<"/">>
        \o target_manufacturer \o <<"/">> \o target_serial
        \o <<"/", message_type>>

\* ------------------------------------------------------- VDA5050BaseClient
\* an Optional[str] argument: None, or a string given as its tokens
None == [given |-> FALSE, str |-> <<>>]
Str(s) == [given |-> TRUE, str |-> s]

\* the truth value Python gives an Optional[str]: None and "" are false
Truthy(x) == x.given /\ x.str # <<>>

NoPublish ==
    [api |-> "none", result |-> "none", valid |-> TRUE, ack |-> "none", n |-> 0]

\* AGVClient.__init__: register_handler("order"), register_handler("instantActions")
AgvInit(validate_messages) ==
    /\ validate = validate_messages
    /\ last_publish = NoPublish
    /\ connected = FALSE
    /\ registered_handlers =
          << [message_type |-> "order", all_manufacturers |-> FALSE, all_serials |-> FALSE],
             [message_type |-> "instantActions", all_manufacturers |-> FALSE, all_serials |-> FALSE] >>
    /\ has_factsheet = FALSE
    /\ published = <<>>
    /\ hook_failed = FALSE
    /\ steps = <<>>
    /\ state_callbacks = 0
    /\ reported = <<>>
    /\ delivered = <<>>
    /\ sent = <<>>
    /\ repeated = {}
    /\ topic_manager = OwnManager
    /\ topic_out = NoTopicCall
    /\ route_out = NoRoute

\* an AGV client built with the default validate_messages = True
ClientInit == AgvInit(TRUE)

\* _setup_registered_handlers, the first n registrations: mqtt.subscribe of
\* the registration's topic with its message_wrapper, in list order
RECURSIVE SubscribedExact(_, _, _)
SubscribedExact(exact, regs, n) ==
    IF n = 0 THEN exact
    ELSE LET topic == GetSubscriptionTopic(regs[n].message_type,
                          regs[n].all_manufacturers, regs[n].all_serials)
             before == SubscribedExact(exact, regs, n - 1)
         IN  IF IsWildcard(topic) THEN before ELSE DictSet(before, topic, 0 - n)

RECURSIVE SubscribedWild(_, _, _)
SubscribedWild(wild, regs, n) ==
    IF n = 0 THEN wild
    ELSE LET topic == GetSubscriptionTopic(regs[n].message_type,
                          regs[n].all_manufacturers, regs[n].all_serials)
             before == SubscribedWild(wild, regs, n - 1)
         IN  IF IsWildcard(topic) THEN DictSet(before, topic, 0 - n) ELSE before

\* what the broker does with a publish handed to the transport
Acks == {"acked", "timeout", "rejected"}

\* a publish() that does not look at the session state
MqttPublishAnyState(st, ack) ==
    IF ack = "rejected" THEN "false" ELSE "true"

\* MQTTAbstraction.publish in session state st: not CONNECTED, RuntimeError
\* before anything is handed over; else the message is handed to the
\* transport and wait_for_publish(10) is awaited: it raises when the
\* transport refused the message (publish returns False) and it returns
\* normally both on acknowledgment and when the 10 s have passed (publish
\* returns True)
MqttPublish(st, ack) ==
    IF st # "CONNECTED" THEN "raised"
    ELSE IF ack = "rejected" THEN "false"
    ELSE "true"

\* a publish() that hands the message over whatever the session state
MqttHandsAlways(st) == TRUE

\* MQTTAbstraction.publish hands the message to the transport
MqttHands(st) == st = "CONNECTED"

\* a _publish_message that skips the validator
ValidationPassesAlways(valid) == TRUE

\* _publish_message: `if self.validator: validate_message(...)`; valid says
\* whether the payload satisfies the schema of its message type
ValidationPasses(valid) == ~validate \/ valid

\* a _publish_message without the `if not self._connected` guard
MayPublishAlways(is_connected) == TRUE

\* _publish_message: `if not self._connected: raise VDA5050Error`
MayPublish(is_connected) == is_connected

\* a _publish_message that takes the sender's own topic whatever the target
ResolveTopicOwn(message_type, target_manufacturer, target_serial) ==
    GetPublishTopic(message_type)

\* _publish_message, lines 165-170: `if target_manufacturer and target_serial`
\* get_target_topic, else get_publish_topic
ResolveTopic(message_type, target_manufacturer, target_serial) ==
    IF Truthy(target_manufacturer) /\ Truthy(target_serial)
    THEN GetTargetTopic(message_type, target_manufacturer.str, target_serial.str)
    ELSE GetPublishTopic(message_type)

\* _publish_message of a client whose _connected is is_connected, the session
\* state being st: what has been handed to the transport afterwards.  The
\* method has no retain parameter: a call that passes retain raises TypeError
\* before the body runs.  Not connected: VDA5050Error.  Validation failure:
\* VDA5050Error.  Session not CONNECTED: mqtt.publish raises.  mqtt.publish
\* passes no retain flag to the transport.
PublishMessageTo(pub, is_connected, st, message_type, payload, retain_passed, valid, target_manufacturer, target_serial) ==
    IF ~retain_passed /\ MayPublish(is_connected) /\ ValidationPasses(valid)
           /\ MqttHands(st)
    THEN Append(pub, [topic |-> ResolveTopic(message_type, target_manufacturer,
                                             target_serial),
                      payload |-> payload, retain |-> FALSE])
    ELSE pub

\* the same call without target_manufacturer and target_serial: both default
\* to None
PublishMessage(pub, is_connected, st, message_type, payload, retain_passed, valid) ==
    PublishMessageTo(pub, is_connected, st, message_type, payload, retain_passed,
                     valid, None, None)

\* the outcome of the same call for its caller
PublishResult(is_connected, st, retain_passed, valid, ack) ==
    IF retain_passed THEN "TypeError"
    ELSE IF ~MayPublish(is_connected) THEN "NotConnected"
    ELSE IF ~ValidationPasses(valid) THEN "Error"
    ELSE IF MqttPublish(st, ack) = "true" THEN "Ok"
    ELSE "Error"

\* AGVClient.update_connection: `if not self._connected: raise`, else
\* _publish_message("connection", ..., retain=True) inside try/except
UpdateConnection(pub, is_connected, st, connection_state) ==
    IF ~is_connected THEN pub
    ELSE PublishMessage(pub, is_connected, st, "connection", connection_state,
                        TRUE, TRUE)

\* AGVClient._on_vda5050_connect: update_connection(ONLINE), then
\* send_factsheet if _factsheet exists; update_connection raises when
\* _connected is false and the except clause ends the hook
OnVda5050Connect(pub, is_connected, st, with_factsheet) ==
    IF ~is_connected THEN pub
    ELSE LET online == UpdateConnection(pub, is_connected, st, "ONLINE")
         IN  IF with_factsheet
             THEN PublishMessage(online, is_connected, st, "factsheet",
                                 "factsheet", TRUE, TRUE)
             ELSE online

Step(op, topic) == [op |-> op, topic |-> topic]

\* the subscribes of the first n registrations, last registration first
RECURSIVE SubscribeStepsReversed(_, _)
SubscribeStepsReversed(regs, n) ==
    IF n = 0 THEN <<>>
    ELSE <<Step("subscribe", GetSubscriptionTopic(regs[n].message_type,
                      regs[n].all_manufacturers, regs[n].all_serials))>>
         \o SubscribeStepsReversed(regs, n - 1)

\* _setup_registered_handlers: the subscribes of the first n registrations,
\* in list order
RECURSIVE SubscribeSteps(_, _)
SubscribeSteps(regs, n) ==
    IF n = 0 THEN <<>>
    ELSE SubscribeSteps(regs, n - 1)
         \o <<Step("subscribe", GetSubscriptionTopic(regs[n].message_type,
                      regs[n].all_manufacturers, regs[n].all_serials))>>

\* connect() from the return of mqtt.connect(): the subscribes, then the
\* hook, then `_connected = True`; a rejected subscribe ends the call
ConnectSteps(regs, failAt) ==
    LET n == IF failAt = 0 THEN Len(regs) ELSE failAt - 1
    IN  <<Step("connect", <<>>)>> \o SubscribeSteps(regs, n)
        \o (IF failAt = 0 THEN <<Step("hook", <<>>), Step("mark", <<>>)>>
            ELSE <<>>)

\* the topics of the first n registrations
SubscribedTopics(regs, n) ==
    {GetSubscriptionTopic(regs[k].message_type, regs[k].all_manufacturers,
                          regs[k].all_serials) : k \in 1..n}

\* connect() after mqtt.connect() returned True (lines 79-94), the session
\* state being st: failAt = 0, every subscribe is accepted, the hook runs and
\* _connected is set; failAt = k, the transport rejects the k-th subscribe,
\* the exception is caught and connect() returns False.  A transport whose
\* connection is not up rejects the first subscribe.
PostConnect(failAt, st) ==
    LET n == IF failAt = 0 THEN Len(registered_handlers) ELSE failAt - 1
    IN  /\ IF net = "up" THEN TRUE ELSE failAt = 1
        /\ handlers' = SubscribedExact(handlers, registered_handlers, n)
        /\ wildcard_handlers' = SubscribedWild(wildcard_handlers, registered_handlers, n)
        /\ live' = live \cup SubscribedTopics(registered_handlers, n)
        /\ IF failAt = 0
           THEN /\ published' = OnVda5050Connect(published, connected, st, has_factsheet)
                /\ connected' = TRUE
           ELSE UNCHANGED <<published, connected>>
        /\ hook_failed' = FALSE
        /\ steps' = ConnectSteps(registered_handlers, failAt)
        /\ UNCHANGED <<registered_handlers, has_factsheet, validate, topicVars, last_publish,
                       inboundVars>>

\* a client connect() without the guard of its first line
ClientNeverConnected(is_connected) == FALSE

\* connect(): `if self._connected: return True`
ClientAlreadyConnected(is_connected) == is_connected

\* connect(), up to the first suspension of mqtt.connect() (lines 67-74); on
\* a client marked connected it returns True at its first line
ClientConnect ==
    /\ conn[0] = "idle"
    /\ IF ClientAlreadyConnected(connected)
       THEN /\ repeated' = repeated \cup {"client.connect"}
            /\ UNCHANGED <<state, conn, stopped, handlers, wildcard_handlers,
                           live, coreVars>>
       ELSE /\ stopped' = FALSE
            /\ IF AlreadyConnected(state)
               THEN /\ \E failAt \in 0..Len(registered_handlers) :
                          PostConnect(failAt, state)
                    /\ repeated' = repeated \cup {"mqtt.connect"}
                    /\ UNCHANGED <<state, conn>>
               ELSE /\ state' = "CONNECTING"
                    /\ conn' = [conn EXCEPT ![0] = "transport"]
                    /\ steps' = <<>>
                    /\ UNCHANGED <<handlers, wildcard_handlers, live, connected,
                                   registered_handlers, has_factsheet, published,
                                   hook_failed, validate, topicVars, last_publish,
                                   inboundVars, repeated>>
    /\ UNCHANGED <<connection_event, message_queue, running, net, delay, waits,
                   nNew, nGet, busy, arrived, dispatched, raised, subs>>

\* mqtt.connect() was released by the handshake and returns True; connect()
\* goes on to its end
ClientConnectResume ==
    /\ conn[0] = "woken"
    /\ ProcsAlive < MaxProcs
    /\ running' = TRUE
    /\ nNew' = nNew + 1
    /\ conn' = [conn EXCEPT ![0] = "idle"]
    /\ \E failAt \in 0..Len(registered_handlers) : PostConnect(failAt, state)
    /\ UNCHANGED <<state, connection_event, message_queue, net, delay, waits,
                   nGet, busy, arrived, dispatched, raised, stopped, subs,
                   repeated>>

\* AGVClient.send_factsheet: _factsheet is stored, then
\* _publish_message(..., retain=True)
SendFactsheet ==
    /\ ~has_factsheet
    /\ has_factsheet' = TRUE
    /\ published' = PublishMessage(published, connected, state, "factsheet",
                                   "factsheet", TRUE, TRUE)
    /\ UNCHANGED <<sessionVars, connected, registered_handlers, hook_failed,
                   steps, validate, topicVars, last_publish, inboundVars, repeated>>

\* AGVClient._on_vda5050_disconnect: update_connection(OFFLINE) inside
\* try/except
OnVda5050Disconnect(pub, is_connected, st) ==
    UpdateConnection(pub, is_connected, st, "OFFLINE")

\* disconnect() of a connected client: the hook, mqtt.disconnect() and
\* `_connected = False` stand in one try block.  hook_raises: the role's
\* hook lets an exception out (the AGV's hook catches its own); the except
\* clause logs it and the call ends there.
ClientDisconnect(hook_raises) ==
    /\ connected
    /\ IF hook_raises
       THEN /\ hook_failed' = TRUE
            /\ UNCHANGED <<sessionVars, connected, published, repeated>>
       ELSE /\ published' = OnVda5050Disconnect(published, connected, state)
            /\ hook_failed' = (published' = published)
            /\ SessionDisconnect
            /\ connected' = FALSE
    /\ UNCHANGED <<registered_handlers, has_factsheet, steps, validate, topicVars,
                   last_publish, inboundVars>>

\* AGVClient.send_state: _publish_message("state", state); last_publish
\* keeps the outcome of _publish_message and counts the calls
SendState(valid, ack, cap) ==
    /\ last_publish.n < cap
    /\ published' = PublishMessage(published, connected, state, "state", "state",
                                   FALSE, valid)
    /\ last_publish' = [api |-> "client", valid |-> valid, ack |-> ack,
                        n |-> last_publish.n + 1,
                        result |-> PublishResult(connected, state, FALSE, valid, ack)]
    /\ UNCHANGED <<sessionVars, connected, registered_handlers, has_factsheet,
                   hook_failed, steps, validate, topicVars, inboundVars, repeated>>

\* MQTTAbstraction.publish(topic, payload) called on the session
Publish(topic, ack, cap) ==
    /\ last_publish.n < cap
    /\ published' = IF MqttHands(state)
                    THEN Append(published, [topic |-> topic, payload |-> "payload",
                                            retain |-> FALSE])
                    ELSE published
    /\ last_publish' = [api |-> "session", valid |-> TRUE, ack |-> ack,
                        n |-> last_publish.n + 1,
                        result |-> MqttPublish(state, ack)]
    /\ UNCHANGED <<sessionVars, connected, registered_handlers, has_factsheet,
                   hook_failed, steps, validate, topicVars, inboundVars, repeated>>

\* ------------------------------------------------------------- parse_topic
\* topic.split("/")
RECURSIVE SplitTopic(_)
SplitTopic(s) ==
    LET first == TakeUntil(s, "/")
    IN  IF Len(first) = Len(s) THEN <<s>>
        ELSE <<first>> \o SplitTopic(Drop(s, Len(first) + 1))

Digits == {"0", "1", "2", "3", "4", "5", "6", "7", "8", "9"}

\* version_tag[1:].isdigit()
IsDigit(seg) == seg # <<>> /\ \A i \in 1..Len(seg) : seg[i] \in Digits

\* a parse_topic that takes the fields from the wrong segments
ParseTopicShifted(topic) ==
    LET parts == SplitTopic(topic)
    IN  IF Len(parts) # 5 THEN NoTopicInfo
        ELSE [ok |-> TRUE, interface |-> parts[1], version |-> Tail(parts[2]),
              manufacturer |-> parts[4], serialNumber |-> parts[3],
              messageType |-> parts[5]]

\* a parse_topic that takes manufacturer and serial number from each other's
\* segment
ParseTopicOfSwapped(tm, topic) ==
    LET parts == SplitTopic(topic)
    IN  IF Len(parts) # 5 THEN NoTopicInfo
        ELSE [ok |-> TRUE, interface |-> parts[1], version |-> Tail(parts[2]),
              manufacturer |-> parts[4], serialNumber |-> parts[3],
              messageType |-> parts[5]]

\* a parse_topic that takes any fifth segment as message type
ParseTopicOfAnyType(tm, topic) ==
    LET parts == SplitTopic(topic)
    IN  IF Len(parts) # 5 THEN NoTopicInfo
        ELSE IF parts[1] # tm.interface THEN NoTopicInfo
        ELSE IF parts[2] = <<>> \/ Head(parts[2]) # "v" \/ ~IsDigit(Tail(parts[2]))
             THEN NoTopicInfo
        ELSE [ok |-> TRUE, interface |-> parts[1], version |-> Tail(parts[2]),
              manufacturer |-> parts[3], serialNumber |-> parts[4],
              messageType |-> parts[5]]

\* parse_topic of a TopicManager; ok FALSE stands for the ValueError it
\* raises
ParseTopicOf(tm, topic) ==
    LET parts == SplitTopic(topic)
    IN  IF Len(parts) # 5 THEN NoTopicInfo
        ELSE IF parts[1] # tm.interface THEN NoTopicInfo
        ELSE IF parts[2] = <<>> \/ Head(parts[2]) # "v" \/ ~IsDigit(Tail(parts[2]))
             THEN NoTopicInfo
        ELSE IF Len(parts[5]) # 1 \/ parts[5][1] \notin MESSAGE_TYPES THEN NoTopicInfo
        ELSE [ok |-> TRUE, interface |-> parts[1], version |-> Tail(parts[2]),
              manufacturer |-> parts[3], serialNumber |-> parts[4],
              messageType |-> parts[5]]

\* parse_topic of the client's TopicManager
ParseTopic(topic) == ParseTopicOf(OwnManager, topic)

\* ------------------------------------------------------ inbound messages
\* what a payload is for the schema of its type and for the model decoder:
\* "good" satisfies both, "bad" fails both
Payloads == {"good", "bad"}

\* the topic an AGV publishes a message of a type on
AgvTopic(manufacturer, serial, message_type) ==
    InterfaceName \o <<"/", "v">> \o MajorVersion
        \o <<"/", manufacturer, "/", serial, "/", message_type>>

\* _on_message for a message an AGV identity published on the topic of a
\* message type; the broker delivers it when a live subscription matches
OnAgvMessage(manufacturer, serial, message_type, payload, cap) ==
    LET topic == AgvTopic(manufacturer, serial, message_type)
    IN  /\ net = "up"
        /\ arrived < cap
        /\ \E f \in live : ReMatch(Regex(f), topic)
        /\ arrived' = arrived + 1
        /\ message_queue' = QueuePut(message_queue,
               [topic |-> topic, seq |-> arrived + 1, payload |-> payload])
        /\ sent' = Append(sent, [manufacturer |-> manufacturer, serial |-> serial,
                                 payload |-> payload])
        /\ UNCHANGED <<state, connection_event, handlers, wildcard_handlers,
                       running, net, conn, delay, waits, nNew, nGet, busy,
                       dispatched, raised, stopped, subs, live>>
        /\ UNCHANGED <<connected, registered_handlers, has_factsheet, published,
                       hook_failed, steps, validate, topicVars, last_publish,
                       state_callbacks, reported, delivered, repeated>>

\* a message_wrapper that calls the handler whatever the validator says
WrapperInvokesAlways(payload) == TRUE

\* message_wrapper: the user-level handler is called unless the validator is
\* present and rejects the payload
WrapperInvokes(payload) == ~(validate /\ payload = "bad")

\* _message_processor takes a message that _route gives to the
\* message_wrapper of a registration, and the wrapper runs to its end:
\* validation, then the user-level handler, which returns or raises; the
\* wrapper's `except Exception` ends both cases the same way and the loop
\* goes back to `while self._running`
WrapperDeliver(handler_raises) ==
    /\ nGet > 0
    /\ message_queue # <<>>
    /\ LET m == Head(message_queue)
           h == Route(handlers, wildcard_handlers, m.topic)
       IN  /\ h < 0
           /\ registered_handlers[0 - h].message_type # "state"
           /\ message_queue' = Tail(message_queue)
           /\ dispatched' = Append(dispatched,
                  [seq |-> m.seq, topic |-> m.topic, handler |-> h])
           /\ delivered' = IF WrapperInvokes(m.payload)
                           THEN Append(delivered, [seq |-> m.seq, reg |-> 0 - h,
                                                   raised |-> handler_raises])
                           ELSE delivered
    /\ nGet' = IF running THEN nGet ELSE nGet - 1
    /\ UNCHANGED <<state, connection_event, handlers, wildcard_handlers, running,
                   net, conn, delay, waits, nNew, busy, arrived, raised, stopped,
                   subs, live>>
    /\ UNCHANGED <<connected, registered_handlers, has_factsheet, published,
                   hook_failed, steps, validate, topicVars, last_publish, state_callbacks,
                   reported, sent, repeated>>

\* ----------------------------------------------------- MasterControlClient
\* MasterControlClient.__init__: state, connection and factsheet are
\* registered for all manufacturers and all serials
MasterInit ==
    /\ validate = TRUE
    /\ last_publish = NoPublish
    /\ connected = FALSE
    /\ registered_handlers =
          << [message_type |-> "state", all_manufacturers |-> TRUE, all_serials |-> TRUE],
             [message_type |-> "connection", all_manufacturers |-> TRUE, all_serials |-> TRUE],
             [message_type |-> "factsheet", all_manufacturers |-> TRUE, all_serials |-> TRUE] >>
    /\ has_factsheet = FALSE
    /\ published = <<>>
    /\ hook_failed = FALSE
    /\ steps = <<>>
    /\ state_callbacks = 0
    /\ reported = <<>>
    /\ delivered = <<>>
    /\ sent = <<>>
    /\ repeated = {}
    /\ topic_manager = OwnManager
    /\ topic_out = NoTopicCall
    /\ route_out = NoRoute

\* on_state_update: the callback is appended
OnStateUpdate ==
    /\ state_callbacks < MaxCallbacks
    /\ state_callbacks' = state_callbacks + 1
    /\ UNCHANGED <<sessionVars, connected, registered_handlers, has_factsheet,
                   published, hook_failed, steps, validate, topicVars, last_publish,
                   reported, delivered, sent, repeated>>

\* _handle_state: parse_topic (its ValueError leaves the handler), the
\* payload is decoded (a failure is logged and the handler returns), then
\* every callback is called with the serial number of the topic; rep is the
\* log of callback invocations, n the number of callbacks
HandleState(rep, topic, payload, seq, n) ==
    LET info == ParseTopic(topic)
    IN  IF ~info.ok \/ payload = "bad" THEN rep
        ELSE rep \o [c \in 1..n |->
                        [cb |-> c, serial |-> info.serialNumber, seq |-> seq]]

\* _message_processor takes a message that _route gives to the
\* message_wrapper of the state registration; wrapper and _handle_state have
\* no suspension point and run to their end
MasterStateDeliver ==
    /\ nGet > 0
    /\ message_queue # <<>>
    /\ LET m == Head(message_queue)
           h == Route(handlers, wildcard_handlers, m.topic)
       IN  /\ h < 0
           /\ registered_handlers[0 - h].message_type = "state"
           /\ message_queue' = Tail(message_queue)
           /\ dispatched' = Append(dispatched,
                  [seq |-> m.seq, topic |-> m.topic, handler |-> h])
           /\ delivered' = IF WrapperInvokes(m.payload)
                           THEN Append(delivered, [seq |-> m.seq, reg |-> 0 - h,
                                   raised |-> ~ParseTopic(m.topic).ok])
                           ELSE delivered
           /\ reported' = IF WrapperInvokes(m.payload)
                          THEN HandleState(reported, m.topic, m.payload, m.seq,
                                           state_callbacks)
                          ELSE reported
    /\ nGet' = IF running THEN nGet ELSE nGet - 1
    /\ UNCHANGED <<state, connection_event, handlers, wildcard_handlers, running,
                   net, conn, delay, waits, nNew, busy, arrived, raised, stopped,
                   subs, live>>
    /\ UNCHANGED <<connected, registered_handlers, has_factsheet, published,
                   hook_failed, steps, validate, topicVars, last_publish, state_callbacks,
                   sent, repeated>>

\* ------------------------------------------------------- targeted publish
\* the names a caller passes as target: the empty string and a name that is
\* not the client's own
TargetManufacturers == {<<>>, <<"N">>}
TargetSerials == {<<>>, <<"A">>}

\* a send method without its `except VDA5050Error`
ReturnedUncaught(result) ==
    IF result = "Ok" THEN "True"
    ELSE IF result = "TypeError" THEN "TypeError"
    ELSE "VDA5050Error"

\* what a role's send method gives its caller for an outcome of
\* _publish_message: `return await self._publish_message(...)`, and
\* `except VDA5050Error: return False`; a TypeError is not caught
Returned(result) ==
    IF result = "Ok" THEN "True"
    ELSE IF result = "TypeError" THEN "TypeError"
    ELSE "False"

\* what mqtt.publish gave _publish_message: "none" when the call was not
\* reached (not connected, or the payload failed validation)
Transport(is_connected, st, valid, ack) ==
    IF MayPublish(is_connected) /\ ValidationPasses(valid)
    THEN MqttPublish(st, ack)
    ELSE "none"

\* the record of a call for last_publish
CallRecord(api, message_type, target_manufacturer, target_serial, valid, ack, transport, result, returned) ==
    [api |-> api, valid |-> valid, ack |-> ack, n |-> last_publish.n + 1,
     transport |-> transport, result |-> result, returned |-> returned,
     message_type |-> message_type,
     target_manufacturer |-> target_manufacturer,
     target_serial |-> target_serial]

\* _publish_message(message_type, message, target_manufacturer,
\* target_serial) called by api, inside `try: return await ... except
\* VDA5050Error: return False`; last_publish keeps the call and its outcome
PublishCall(api, message_type, target_manufacturer, target_serial, valid, ack, cap) ==
    /\ last_publish.n < cap
    /\ published' = PublishMessageTo(published, connected, state, message_type,
                                     "payload", FALSE, valid,
                                     target_manufacturer, target_serial)
    /\ last_publish' =
          CallRecord(api, message_type, target_manufacturer, target_serial,
                     valid, ack, Transport(connected, state, valid, ack),
                     PublishResult(connected, state, FALSE, valid, ack),
                     Returned(PublishResult(connected, state, FALSE, valid, ack)))
    /\ UNCHANGED <<sessionVars, connected, registered_handlers, hook_failed,
                   steps, validate, topicVars, inboundVars, repeated>>

\* Client Core _publish_message with the targets a subclass passes or leaves
\* at their default None
CorePublish(message_type, target_manufacturer, target_serial, valid, ack, cap) ==
    /\ PublishCall("core", message_type, target_manufacturer, target_serial,
                   valid, ack, cap)
    /\ UNCHANGED has_factsheet

\* MasterControlClient.send_order(target_manufacturer, target_serial, order)
SendOrder(target_manufacturer, target_serial, valid, ack, cap) ==
    /\ PublishCall("send_order", "order", Str(target_manufacturer),
                   Str(target_serial), valid, ack, cap)
    /\ UNCHANGED has_factsheet

\* MasterControlClient.send_instant_action(target_manufacturer,
\* target_serial, action)
SendInstantAction(target_manufacturer, target_serial, valid, ack, cap) ==
    /\ PublishCall("send_instant_action", "instantActions",
                   Str(target_manufacturer), Str(target_serial), valid, ack, cap)
    /\ UNCHANGED has_factsheet

\* ------------------------------------- AGVClient, src/vda5050/clients/agv.py
\* send_factsheet (lines 89-102): _factsheet is stored, then
\* _publish_message("factsheet", factsheet) with no retain argument
AgvSendFactsheet(valid, ack, cap) ==
    /\ PublishCall("send_factsheet", "factsheet", None, None, valid, ack, cap)
    /\ has_factsheet' = TRUE

\* send_state (lines 104-115)
AgvSendState(valid, ack, cap) ==
    /\ PublishCall("send_state", "state", None, None, valid, ack, cap)
    /\ UNCHANGED has_factsheet

\* update_connection (lines 117-134): VDA5050Error when the client is not
\* connected; else the raw string goes to mqtt.publish on the connection
\* topic, unvalidated, and `except Exception` turns a False result or an
\* exception of mqtt.publish into the return value False
AgvUpdateConnection(connection_state, ack, cap) ==
    /\ last_publish.n < cap
    /\ published' = IF connected /\ MqttHands(state)
                    THEN Append(published,
                                [topic |-> GetPublishTopic("connection"),
                                 payload |-> connection_state, retain |-> FALSE])
                    ELSE published
    /\ last_publish' =
          LET transport == IF connected THEN MqttPublish(state, ack) ELSE "none"
          IN  CallRecord("update_connection", "connection", None, None, TRUE, ack,
                         transport,
                         IF ~connected THEN "NotConnected"
                         ELSE IF transport = "true" THEN "Ok" ELSE "Error",
                         IF ~connected THEN "VDA5050Error"
                         ELSE IF transport = "true" THEN "True" ELSE "False")
    /\ UNCHANGED <<sessionVars, connected, registered_handlers, has_factsheet,
                   hook_failed, steps, validate, topicVars, inboundVars, repeated>>

\* the role of the client, read from what its constructor registered
IsMasterControl ==
    /\ registered_handlers # <<>>
    /\ registered_handlers[1].message_type = "state"

\* ------------------------------------------------------ the broker's side
\* some client publishes, for the AGV manufacturer/serial, a message of a
\* type at the broker; the broker forwards it to this client when one of the
\* filters this client has subscribed matches its topic (_on_message puts it
\* on the queue) and not otherwise; sent keeps every message published
BrokerPublish(manufacturer, serial, message_type, payload, cap) ==
    LET topic == AgvTopic(manufacturer, serial, message_type)
    IN  /\ net = "up"
        /\ Len(sent) < cap
        /\ sent' = Append(sent, [manufacturer |-> manufacturer, serial |-> serial,
                                 payload |-> payload])
        /\ IF \E f \in live : ReMatch(Regex(f), topic)
           THEN /\ arrived' = arrived + 1
                /\ message_queue' = QueuePut(message_queue,
                       [topic |-> topic, seq |-> Len(sent) + 1, payload |-> payload])
           ELSE UNCHANGED <<arrived, message_queue>>
        /\ UNCHANGED <<state, connection_event, handlers, wildcard_handlers,
                       running, net, conn, delay, waits, nNew, nGet, busy,
                       dispatched, raised, stopped, subs, live>>
        /\ UNCHANGED <<connected, registered_handlers, has_factsheet, published,
                       hook_failed, steps, validate, topicVars, last_publish,
                       state_callbacks, reported, delivered, repeated>>

\* ------------------------------------------------- calls on a TopicManager
\* the arguments a TopicManager is built with: interface names, version
\* strings, manufacturer and serial names, as sequences of characters
Interfaces == {<<"uagv">>, <<"u", "/", "g">>}
Versions == {<<"2", ".", "1", ".", "0">>, <<"1", "0">>, <<"v", "2">>, <<>>}
Names == {<<"M">>, <<"A", ".", "B">>, <<>>, <<"M", "/", "S">>}

\* message types passed to the topic builders: the six of MESSAGE_TYPES and
\* one that is not among them
TopicTypes == MESSAGE_TYPES \cup {"status"}

\* topics handed to parse_topic: every topic of five segments taken from
\* these, and topics of no, one, four and six segments
ParseTopics ==
    {i \o <<"/">> \o v \o <<"/">> \o m \o <<"/">> \o n \o <<"/">> \o t :
        i \in {<<"uagv">>, <<"x">>},
        v \in {<<"v", "2">>, <<"v", "1", "0">>, <<"v">>, <<"2">>, <<"v", "x">>,
               <<"V", "2">>, <<>>},
        m \in {<<"M">>, <<>>},
        n \in {<<"M">>, <<>>},
        t \in {<<"state">>, <<"order">>, <<"status">>, <<"state", "s">>, <<>>}}
    \cup {<<>>, <<"uagv">>,
          <<"uagv", "/", "v", "2", "/", "M", "/", "state">>,
          <<"uagv", "/", "v", "2", "/", "M", "/", "S", "/", "state", "/">>,
          <<"uagv", "/", "v", "2", "/", "M", "/", "S", "/", "x", "/", "state">>}

\* topic_manager.get_publish_topic(message_type)
GetPublishTopicCall(message_type) ==
    /\ topic_out' =
          [op |-> "get_publish_topic", message_type |-> message_type,
           built |-> "",
           topic |-> GetPublishTopicOf(topic_manager, message_type).topic,
           ok |-> GetPublishTopicOf(topic_manager, message_type).ok,
           info |-> NoTopicInfo]
    /\ UNCHANGED <<sessionVars, connected, registered_handlers, has_factsheet,
                   published, hook_failed, steps, validate, last_publish,
                   inboundVars, repeated, topic_manager, route_out>>

\* topic_manager.parse_topic(topic); built is the message type the topic was
\* built for by get_publish_topic of the same TopicManager, "" for a topic
\* from elsewhere
ParseTopicCall(topic, built) ==
    /\ topic_out' =
          [op |-> "parse_topic", message_type |-> "", built |-> built,
           topic |-> topic,
           ok |-> ParseTopicOf(topic_manager, topic).ok,
           info |-> ParseTopicOf(topic_manager, topic)]
    /\ UNCHANGED <<sessionVars, connected, registered_handlers, has_factsheet,
                   published, hook_failed, steps, validate, last_publish,
                   inboundVars, repeated, topic_manager, route_out>>

\* topic_manager.get_subscription_topic(message_type, all_manufacturers,
\* all_serials)
GetSubscriptionTopicCall(message_type, all_manufacturers, all_serials) ==
    /\ topic_out' =
          [op |-> "get_subscription_topic", message_type |-> message_type,
           built |-> "",
           topic |-> GetSubscriptionTopicOf(topic_manager, message_type,
                                            all_manufacturers, all_serials).topic,
           ok |-> GetSubscriptionTopicOf(topic_manager, message_type,
                                         all_manufacturers, all_serials).ok,
           info |-> NoTopicInfo]
    /\ UNCHANGED <<sessionVars, connected, registered_handlers, has_factsheet,
                   published, hook_failed, steps, validate, last_publish,
                   inboundVars, repeated, topic_manager, route_out>>

\* concrete topics of inbound messages
RouteTopics ==
    {i \o <<"/">> \o v \o <<"/">> \o m \o <<"/">> \o n \o <<"/">> \o t :
        i \in {<<"uagv">>, <<"x">>},
        v \in {<<"v", "2">>, <<"v", "1">>},
        m \in {<<"M">>, <<"A", ".", "B">>, <<"A", "x", "B">>},
        n \in {<<"S", "1">>, <<"S", "2">>, <<>>, <<"S", "/", "T">>},
        t \in {<<"state">>, <<"order">>}}

\* subscribe(pattern, handler) on a session without subscriptions, then
\* _route(topic, payload): the handler the message goes to
RouteCall(pattern, topic) ==
    /\ route_out' =
          [called |-> TRUE, pattern |-> pattern, topic |-> topic,
           handler |->
               IF IsWildcard(pattern)
               THEN Route(<<>>, <<[key |-> pattern, val |-> 1]>>, topic)
               ELSE Route(<<[key |-> pattern, val |-> 1]>>, <<>>, topic)]
    /\ UNCHANGED <<sessionVars, connected, registered_handlers, has_factsheet,
                   published, hook_failed, steps, validate, last_publish,
                   inboundVars, repeated, topic_manager, topic_out>>

\* register_handler(message_type, handler, all_manufacturers, all_serials):
\* the registration is appended to _registered_handlers, nothing else
RegisterHandler(message_type, all_manufacturers, all_serials, cap) ==
    /\ Len(registered_handlers) < cap
    /\ registered_handlers' =
          Append(registered_handlers,
                 [message_type |-> message_type,
                  all_manufacturers |-> all_manufacturers,
                  all_serials |-> all_serials])
    /\ UNCHANGED <<sessionVars, connected, has_factsheet, published, hook_failed,
                   steps, validate, last_publish, inboundVars, topicVars, repeated>>

\* ------------------------------------------------------------ specification
vars == <<sessionVars, clientVars>>

Init == SessionInit /\ ClientInit

\* connect() to its end, with and without failures, and the _reconnect tasks
Connecting(cap) ==
    \/ \E c \in Callers : TransportConnectFail(c, cap)
    \/ \E c \in Callers : TransportConnectOk(c)
    \/ \E c \in Callers : ConnectTimeout(c, cap)
    \/ \E c \in Callers : ConnectResume(c)
    \/ \E r \in ReconIds : ReconnectStart(r)
    \/ \E r \in ReconIds : ReconnectWake(r)
    \/ OnConnect
    \/ OnConnectRefused

Dispatching ==
    \/ ProcGet
    \/ \E b \in busy : HandlerReturn(b)
    \/ \E b \in busy : HandlerRaise(b)

\* the connection lifecycle of the session, no traffic
Next ==
    \/ ApiConnect
    \/ Disconnect
    \/ OnDisconnectGraceful
    \/ OnDrop(MaxRecon)
    \/ Connecting(MaxAttempts)
    \/ ProcStart
    \/ ProcPollExit

Spec == Init /\ [][Next]_vars

\* the same for a session on which disconnect() is never called
NextReconnect ==
    \/ ApiConnect
    \/ OnDrop(MaxRecon)
    \/ Connecting(MaxAttempts)
    \/ ProcStart

SpecReconnect == Init /\ [][NextReconnect]_vars

\* one reconnect loop followed through its whole backoff schedule
NextBackoff ==
    \/ ApiConnect
    \/ OnDrop(BackoffRecon)
    \/ Connecting(MaxBackoffAttempts)
    \/ ProcStart

SpecBackoff == Init /\ [][NextBackoff]_vars

\* inbound traffic to one catch-all subscription over a session that is
\* connected, disconnected and connected again
NextDispatch ==
    \/ ApiConnect
    \/ Disconnect
    \/ OnDisconnectGraceful
    \/ TransportConnectOk(0)
    \/ OnConnect
    \/ ConnectResume(0)
    \/ ProcStart
    \/ ProcPollExit
    \/ Subscribe(PatHash, MaxSubs)
    \/ \E t \in MsgTopics : OnMessage(t, MaxMsgs)
    \/ Dispatching

SpecDispatch == Init /\ [][NextDispatch]_vars

\* exact and wildcard subscriptions in every order, over a session that
\* connects once
NextRoute ==
    \/ ApiConnect
    \/ TransportConnectOk(0)
    \/ OnConnect
    \/ ConnectResume(0)
    \/ ProcStart
    \/ \E t \in SubTopics : Subscribe(t, RouteSubs)
    \/ \E t \in MsgTopics : OnMessage(t, RouteMsgs)
    \/ Dispatching

SpecRoute == Init /\ [][NextRoute]_vars

\* an AGV client over its session: connect() with and without failures,
\* drops and reconnect loops
NextClient ==
    \/ ClientConnect
    \/ ClientConnectResume
    \/ SendFactsheet
    \/ SendState(TRUE, "acked", MaxPublished)
    \/ \E c \in Callers : TransportConnectFail(c, MaxAttempts)
    \/ \E c \in Callers : TransportConnectOk(c)
    \/ \E c \in Callers : ConnectTimeout(c, MaxAttempts)
    \/ \E r \in ReconIds : ConnectResume(r)
    \/ \E r \in ReconIds : ReconnectStart(r)
    \/ \E r \in ReconIds : ReconnectWake(r)
    \/ OnConnect
    \/ OnConnectRefused
    \/ OnDrop(BackoffRecon)
    \/ OnDisconnectGraceful
    \/ ProcStart
    \/ ProcPollExit
    \/ ClientDisconnect(FALSE)

SpecClient == Init /\ [][NextClient]_vars

\* a Client Core whose role may let an exception out of its pre-disconnect
\* hook
NextCore ==
    \/ ClientConnect
    \/ ClientConnectResume
    \/ TransportConnectFail(0, MaxAttempts)
    \/ TransportConnectOk(0)
    \/ OnConnect
    \/ OnDisconnectGraceful
    \/ ProcStart
    \/ ProcPollExit
    \/ \E valid \in BOOLEAN, ack \in Acks : SendState(valid, ack, CorePublished)
    \/ \E hook_raises \in BOOLEAN : ClientDisconnect(hook_raises)

\* the client is built with or without a validator
InitCore == SessionInit /\ \E validate_messages \in BOOLEAN : AgvInit(validate_messages)

SpecCore == InitCore /\ [][NextCore]_vars

\* the session's publish() in every state the session takes
NextPublish ==
    \/ ApiConnect
    \/ TransportConnectFail(0, MaxAttempts)
    \/ TransportConnectOk(0)
    \/ ConnectTimeout(0, MaxAttempts)
    \/ OnConnect
    \/ ConnectResume(0)
    \/ Disconnect
    \/ OnDisconnectGraceful
    \/ ProcStart
    \/ ProcPollExit
    \/ \E ack \in Acks : Publish(TopicAB, ack, CorePublished)

SpecPublish == Init /\ [][NextPublish]_vars

\* a client whose registered handlers receive valid and invalid payloads
NextWrapper ==
    \/ ClientConnect
    \/ TransportConnectOk(0)
    \/ OnConnect
    \/ ClientConnectResume
    \/ ProcStart
    \/ \E t \in {"order", "instantActions"}, payload \in Payloads :
          OnAgvMessage("M", "S", t, payload, WrapMsgs)
    \/ \E handler_raises \in BOOLEAN : WrapperDeliver(handler_raises)

SpecWrapper == InitCore /\ [][NextWrapper]_vars

\* a master control client receiving the state messages of several AGVs; its
\* post-connect hook only logs
InitMaster == SessionInit /\ MasterInit

NextMaster ==
    \/ ClientConnect
    \/ TransportConnectOk(0)
    \/ OnConnect
    \/ ClientConnectResume
    \/ ProcStart
    \/ OnStateUpdate
    \/ \E m \in {"M", "N"}, a \in {"A1", "A2"}, payload \in Payloads :
          OnAgvMessage(m, a, "state", payload, MasterMsgs)
    \/ MasterStateDeliver

SpecMaster == InitMaster /\ [][NextMaster]_vars

\* a master control client that connects, sends to the AGVs its callers
\* name, and disconnects; and the Client Core call under its sends
Optionals(names) == {None} \cup {Str(s) : s \in names}

NextSend ==
    \/ ClientConnect
    \/ TransportConnectOk(0)
    \/ OnConnect
    \/ ClientConnectResume
    \/ ProcStart
    \/ ProcPollExit
    \/ ClientDisconnect(FALSE)
    \/ \E tm \in TargetManufacturers, ts \in TargetSerials, ack \in Acks :
          SendOrder(tm, ts, TRUE, ack, SendCalls)
    \/ \E tm \in TargetManufacturers, ts \in TargetSerials, ack \in Acks :
          SendInstantAction(tm, ts, TRUE, ack, SendCalls)
    \/ \E t \in {"state", "order"}, tm \in Optionals(TargetManufacturers),
          ts \in Optionals(TargetSerials) :
          CorePublish(t, tm, ts, TRUE, "acked", SendCalls)

SpecSend == InitMaster /\ [][NextSend]_vars

\* an AGV client or a master control client, connected and cut off, whose
\* send methods are called with every outcome of the session's publish
InitRole == SessionInit /\ (AgvInit(TRUE) \/ MasterInit)

NextRole ==
    \/ ClientConnect
    \/ TransportConnectOk(0)
    \/ OnConnect
    \/ ClientConnectResume
    \/ ProcStart
    \/ OnDrop(BackoffRecon)
    \/ \E ack \in Acks : ~IsMasterControl /\ AgvSendFactsheet(TRUE, ack, SendCalls)
    \/ \E ack \in Acks : ~IsMasterControl /\ AgvSendState(TRUE, ack, SendCalls)
    \/ \E ack \in Acks :
          ~IsMasterControl /\ AgvUpdateConnection("ONLINE", ack, SendCalls)
    \/ \E ack \in Acks :
          IsMasterControl /\ SendOrder(<<"N">>, <<"A">>, TRUE, ack, SendCalls)
    \/ \E ack \in Acks :
          IsMasterControl /\ SendInstantAction(<<"N">>, <<"A">>, TRUE, ack, SendCalls)

SpecRole == InitRole /\ [][NextRole]_vars

\* an AGV client that connects, disconnects and connects again while orders
\* and instant actions for it and for other AGVs are published at the broker
NextAgv ==
    \/ ClientConnect
    \/ TransportConnectOk(0)
    \/ OnConnect
    \/ ClientConnectResume
    \/ ProcStart
    \/ ProcPollExit
    \/ ClientDisconnect(FALSE)
    \/ OnDisconnectGraceful
    \/ \E m \in {"M", "N"}, a \in {"S", "A"}, t \in {"order", "instantActions"} :
          BrokerPublish(m, a, t, "good", AgvMsgs)
    \/ WrapperDeliver(FALSE)

SpecAgv == Init /\ [][NextAgv]_vars

\* a client that has not connected and has published and received nothing
Unconnected ==
    /\ SessionInit
    /\ validate = TRUE
    /\ last_publish = NoPublish
    /\ connected = FALSE
    /\ registered_handlers = <<>>
    /\ has_factsheet = FALSE
    /\ published = <<>>
    /\ hook_failed = FALSE
    /\ steps = <<>>
    /\ state_callbacks = 0
    /\ reported = <<>>
    /\ delivered = <<>>
    /\ sent = <<>>
    /\ repeated = {}
    /\ topic_out = NoTopicCall
    /\ route_out = NoRoute

\* a TopicManager built for every identity of the input sets, on which the
\* topic builders and parse_topic are called
InitTopic ==
    /\ Unconnected
    /\ topic_manager \in {TopicManager(i, v, m, n) :
                              i \in Interfaces, v \in Versions, m \in Names, n \in Names}

NextTopic ==
    \/ \E t \in TopicTypes : GetPublishTopicCall(t)
    \/ /\ topic_out.op = "get_publish_topic"
       /\ topic_out.ok
       /\ ParseTopicCall(topic_out.topic, topic_out.message_type)

SpecTopic == InitTopic /\ [][NextTopic]_vars

\* parse_topic of the TopicManagers of one identity under each interface
\* name, on the topics of ParseTopics
InitParse ==
    /\ Unconnected
    /\ \E i \in Interfaces :
          topic_manager = TopicManager(i, <<"2", ".", "1", ".", "0">>, <<"M">>, <<"M">>)

NextParse == \E topic \in ParseTopics : ParseTopicCall(topic, "")

SpecParse == InitParse /\ [][NextParse]_vars

\* the subscription topics of two TopicManagers, one with a '.' in its
\* manufacturer, looked up under the topics of RouteTopics
InitMatch ==
    /\ Unconnected
    /\ \E m \in {<<"M">>, <<"A", ".", "B">>} :
          topic_manager = TopicManager(<<"uagv">>, <<"2", ".", "1", ".", "0">>,
                                       m, <<"S", "1">>)

NextMatch ==
    \/ \E t \in {"state", "order"}, am, as \in BOOLEAN :
          GetSubscriptionTopicCall(t, am, as)
    \/ /\ topic_out.op = "get_subscription_topic"
       /\ topic_out.ok
       /\ \E topic \in RouteTopics : RouteCall(topic_out.topic, topic)

SpecMatch == InitMatch /\ [][NextMatch]_vars

\* an AGV client on which a third handler is registered at any time, for
\* its own orders or for the orders of every serial of its manufacturer,
\* while it connects, disconnects and connects again and orders are
\* published at the broker
NextRegister ==
    \/ \E as \in BOOLEAN : RegisterHandler("order", FALSE, as, MaxRegistered)
    \/ ClientConnect
    \/ TransportConnectOk(0)
    \/ OnConnect
    \/ ClientConnectResume
    \/ ProcStart
    \/ ProcPollExit
    \/ ClientDisconnect(FALSE)
    \/ OnDisconnectGraceful
    \/ \E a \in {"S", "A"} : BrokerPublish("M", a, "order", "good", RegisterMsgs)
    \/ WrapperDeliver(FALSE)

SpecRegister == Init /\ [][NextRegister]_vars

\* a session that is connected, disconnected and connected again, with
\* inbound traffic to one catch-all subscription
Cycling(cap) ==
    \/ ApiConnect
    \/ Disconnect
    \/ OnDisconnectGraceful
    \/ TransportConnectOk(0)
    \/ OnConnect
    \/ ConnectResume(0)
    \/ ProcStart
    \/ ProcPollExit
    \/ Subscribe(PatHash, MaxSubs)
    \/ OnMessage(TopicAB, cap)
    \/ Dispatching

NextStop == Cycling(StopMsgs)

NextQueue == Cycling(QueueMsgs)

SpecQueue == Init /\ [][NextQueue]_vars

\* the scheduling of the event loop: a task that is ready runs, the 1 s
\* poll of an empty queue expires, and a handler that was started finishes
FairDispatch ==
    /\ WF_vars(ProcStart)
    /\ WF_vars(ProcPollExit)
    /\ WF_vars(Dispatching)

SpecStop == Init /\ [][NextStop]_vars /\ FairDispatch

\* explicit disconnects and unexpected drops of a session whose connection
\* attempts succeed, with its reconnect loop
NextGraceful ==
    \/ ApiConnect
    \/ Disconnect
    \/ OnDisconnectGraceful
    \/ OnDrop(BackoffRecon)
    \/ \E c \in Callers : TransportConnectOk(c)
    \/ \E c \in Callers : ConnectResume(c)
    \/ \E r \in ReconIds : ReconnectStart(r)
    \/ \E r \in ReconIds : ReconnectWake(r)
    \/ OnConnect
    \/ ProcStart
    \/ ProcPollExit

SpecGraceful == Init /\ [][NextGraceful]_vars

\* a client whose session is dropped and reconnected by its _reconnect
\* task, while the client connects, disconnects and publishes; the
\* _message_processor tasks that are created do not get to run
NextDrop ==
    \/ ClientConnect
    \/ ClientConnectResume
    \/ ClientDisconnect(FALSE)
    \/ \E c \in Callers : TransportConnectOk(c)
    \/ \E r \in ReconIds : ConnectResume(r)
    \/ \E r \in ReconIds : ReconnectStart(r)
    \/ \E r \in ReconIds : ReconnectWake(r)
    \/ OnConnect
    \/ OnDrop(BackoffRecon)
    \/ OnDisconnectGraceful
    \/ \E ack \in Acks : CorePublish("state", None, None, TRUE, ack, SendCalls)

SpecDrop == Init /\ [][NextDrop]_vars

\* a master control client on which two more connection handlers are
\* registered at any time, for every manufacturer (the topic of its second
\* registration) or for its own manufacturer only, while it connects, a
\* connect() that a rejected subscribe ended being called again, and
\* connection messages are published at the broker
NextSame ==
    \/ \E am \in BOOLEAN : RegisterHandler("connection", am, TRUE, SameRegistered)
    \/ ClientConnect
    \/ TransportConnectOk(0)
    \/ OnConnect
    \/ ClientConnectResume
    \/ ProcStart
    \/ \E m \in {"M", "N"} : BrokerPublish(m, "A", "connection", "good", SameMsgs)
    \/ WrapperDeliver(FALSE)

SpecSame == InitMaster /\ [][NextSame]_vars

\* ================================================================= claims

\* C1: a handler exception does not end the dispatch loop: the step in which
\* a handler invocation raises leaves as many _message_processor tasks alive
\* as there were, and the session state stays CONNECTED.
C1_HandlerExceptionIsolated ==
    [][raised' # raised =>
          /\ ProcsAlive' = ProcsAlive
          /\ (state = "CONNECTED" => state' = "CONNECTED")]_vars

\* C2: the message taken from the queue starts at most one handler
\* invocation: the exact subscription's handler when the topic has one, else
\* the handler of the first wildcard pattern in registration order that
\* matches, else none.
C2_OneHandlerExactFirst ==
    [][message_queue # <<>> /\ message_queue' = Tail(message_queue) =>
        LET t == Head(message_queue).topic
            started == busy' \ busy
            matching == {i \in 1..Len(wildcard_handlers) :
                            ReMatch(Regex(wildcard_handlers[i].key), t)}
        IN  /\ Cardinality(started) <= 1
            /\ \A b \in started : b.seq = Head(message_queue).seq /\ b.topic = t
            /\ IF \E i \in 1..Len(handlers) : handlers[i].key = t
               THEN \E b \in started : \E i \in 1..Len(handlers) :
                        handlers[i].key = t /\ b.handler = handlers[i].val
               ELSE IF matching # {}
               THEN \E b \in started : \E i \in matching :
                        /\ \A j \in matching : i <= j
                        /\ b.handler = wildcard_handlers[i].val
               ELSE started = {}]_vars

\* C2 witness: a message whose topic has an exact subscription and also
\* matches a wildcard subscription is being handled by the exact handler.
C2_Witness ==
    \E b \in busy :
        /\ \E i \in 1..Len(handlers) :
              handlers[i].key = b.topic /\ handlers[i].val = b.handler
        /\ \E i \in 1..Len(wildcard_handlers) :
              ReMatch(Regex(wildcard_handlers[i].key), b.topic)

\* C3: once disconnect() has been called while a reconnect loop was active,
\* no _reconnect task starts another connection attempt (until connect() is
\* called explicitly).
C3_NoAttemptAfterDisconnect ==
    [][stopped =>
          \A r \in ReconIds : ~(conn[r] = "sleep" /\ conn'[r] = "transport")]_vars

\* C6: when the API caller's connect() returns failure (the transport's
\* connect call failed, or the wait for the handshake timed out), the session
\* state is DISCONNECTED and no dispatch loop has been started.
C6_FailedConnectLeavesDisconnected ==
    [][conn[0] \in {"transport", "wait"} /\ conn'[0] = "idle" =>
          /\ state' = "DISCONNECTED"
          /\ ProcsAlive' = ProcsAlive]_vars

\* C7: handler invocations of the session are serialized: at most one
\* invocation is in progress at any time.
C7_HandlersSerialized == Cardinality(busy) <= 1

\* C8: for two messages on the same topic the handler invocation of the one
\* that arrived first starts first.
C8_SameTopicFifo ==
    \A i, j \in 1..Len(dispatched) :
        (i < j /\ dispatched[i].topic = dispatched[j].topic)
            => dispatched[i].seq < dispatched[j].seq

\* C8 witness: two messages of one topic have both been handed to their
\* handler while two dispatch loops were alive.
C8_Witness ==
    /\ Len(dispatched) >= 2
    /\ dispatched[1].topic = dispatched[2].topic
    /\ Cardinality(busy) = 2

\* C9: the k-th wait of a reconnect loop is min(2^(k-1), 60).
C9_BackoffSchedule ==
    \A r \in ReconIds : \A k \in 1..Len(waits[r]) :
        waits[r][k] = Min(2 ^ (k - 1), 60)

\* C9 witness: a loop has reached the cap after doubling from 1 to 32.
C9_Witness ==
    \E r \in ReconIds :
        /\ Len(waits[r]) >= 8
        /\ waits[r][6] = 32
        /\ waits[r][7] = 60
        /\ waits[r][8] = 60

\* a reconnect loop ends in this step
LoopEnds(r) == ReconActive(r) /\ conn'[r] = "free"

ClientConnectFails == conn[0] # "idle" /\ conn'[0] = "idle" /\ ~connected'

\* C4: when the client's connect() returns failure the session is not left
\* CONNECTED.
C4_FailedConnectRolledBack ==
    [][ClientConnectFails => state' # "CONNECTED"]_vars

IsOnline(p) ==
    /\ p.topic = <<"uagv", "/", "v", "2", "/", "M", "/", "S", "/", "connection">>
    /\ p.payload = "ONLINE"
    /\ p.retain

\* C5: when the AGV client's connect() succeeds, a retained ONLINE
\* connection message has been published on the AGV's connection topic.
C5_OnlinePublishedOnConnect ==
    [][~connected /\ connected' =>
          \E i \in 1..Len(published') : IsOnline(published'[i])]_vars

\* the hook of a disconnect() call fails in this step
HookFails == connected /\ ~hook_failed /\ hook_failed'

\* C11: when disconnect() is called on a connected client and the
\* pre-disconnect hook fails, the session is torn down and the client ends
\* up not connected.
C11_TeardownDespiteHookFailure ==
    [][HookFails => ~connected' /\ state' = "DISCONNECTED" /\ ~running']_vars

IsOffline(p) ==
    /\ p.topic = <<"uagv", "/", "v", "2", "/", "M", "/", "S", "/", "connection">>
    /\ p.payload = "OFFLINE"
    /\ p.retain

\* C12: when disconnect() ends the connection of a connected AGV client, a
\* retained OFFLINE connection message has been handed to the transport on
\* the AGV's connection topic.
C12_OfflinePublishedOnDisconnect ==
    [][connected /\ ~connected' =>
          \E i \in 1..Len(published') : IsOffline(published'[i])]_vars

OrderTopic == <<"uagv", "/", "v", "2", "/", "M", "/", "S", "/", "order">>
InstantActionsTopic ==
    <<"uagv", "/", "v", "2", "/", "M", "/", "S", "/", "instantActions">>

C14_ResubscribedAfterReconnect ==
    [][\A r \in ReconIds :
          (conn[r] = "woken" /\ conn'[r] = "free" /\ connected
              /\ state' = "CONNECTED" /\ net' = "up")
          => SubscribedTopics(registered_handlers, Len(registered_handlers))
                 \subseteq live']_vars

\* a _publish_message call is made in this step
ClientPublishes == last_publish' # last_publish /\ last_publish'.api = "client"

\* C16: a Client Core publish made while the client is not connected fails
\* with the not-connected error and hands nothing to the transport.
C16_PublishNotConnected ==
    [][(ClientPublishes /\ ~connected) =>
          /\ last_publish'.result = "NotConnected"
          /\ published' = published]_vars

\* C16 witness: the client published while connected, has disconnected, and
\* its second publish failed with the not-connected error.
C16_Witness ==
    /\ ~connected
    /\ state = "DISCONNECTED"
    /\ Len(published) = 1
    /\ last_publish.api = "client"
    /\ last_publish.n = 2
    /\ last_publish.result = "NotConnected"

\* C17: on a connected client over a CONNECTED session, with validation
\* enabled a publish of a message that fails validation reports an error and
\* hands nothing to the transport; with validation disabled the payload is
\* handed to the transport whether it would pass or not.
C17_PublishValidation ==
    [][(ClientPublishes /\ connected /\ state = "CONNECTED") =>
          IF validate /\ ~last_publish'.valid
          THEN last_publish'.result = "Error" /\ published' = published
          ELSE Len(published') = Len(published) + 1]_vars

\* C17 witness: with validation enabled, a connected client's publish of an
\* invalid message ended in an error with nothing handed over.
C17_Witness ==
    /\ validate
    /\ connected
    /\ state = "CONNECTED"
    /\ last_publish.api = "client"
    /\ ~last_publish.valid
    /\ last_publish.result = "Error"
    /\ published = <<>>

\* a session publish() call is made in this step
SessionPublishes == last_publish' # last_publish /\ last_publish'.api = "session"

\* C18: publish() on a session that is not CONNECTED fails at once and
\* hands nothing to the transport.
C18_PublishNeedsConnected ==
    [][(SessionPublishes /\ state # "CONNECTED") =>
          /\ last_publish'.result = "raised"
          /\ published' = published]_vars

\* C18 witness: publish() was refused while the session was CONNECTING.
C18_Witness ==
    /\ state = "CONNECTING"
    /\ last_publish.api = "session"
    /\ last_publish.result = "raised"
    /\ published = <<>>

\* C19: publish() on a CONNECTED session returns True only when the broker
\* acknowledged the message, and returns False when the acknowledgment did
\* not arrive within the wait.
C19_PublishTrueOnlyIfAcked ==
    [][(SessionPublishes /\ state = "CONNECTED") =>
          /\ (last_publish'.result = "true" => last_publish'.ack = "acked")
          /\ (last_publish'.ack = "timeout" => last_publish'.result = "false")]_vars

\* a dispatch loop takes the message at the head of the queue in this step
Takes == message_queue # <<>> /\ message_queue' = Tail(message_queue)

\* C15: when a connected master takes a decodable state message, every
\* registered state callback is invoked exactly once, in registration order,
\* with the serial number of the AGV that sent it, and the invocations for
\* an earlier message all precede those for a later one.
C15_StateCallbacksOncePerMessage ==
    [][(Takes /\ connected /\ Head(message_queue).payload = "good") =>
          LET m == Head(message_queue)
          IN  /\ reported' = reported \o
                    [c \in 1..state_callbacks |->
                        [cb |-> c, serial |-> <<sent[m.seq].serial>>, seq |-> m.seq]]
              /\ \A i, j \in 1..Len(reported') :
                    i < j => reported'[i].seq <= reported'[j].seq]_vars

\* C15 witness: two callbacks have each been invoked for a message of A1 and
\* then for a message of A2 of another manufacturer.
C15_Witness ==
    /\ connected
    /\ Len(sent) = 2
    /\ sent[1].serial = "A1" /\ sent[2].serial = "A2"
    /\ sent[1].manufacturer # sent[2].manufacturer
    /\ reported = << [cb |-> 1, serial |-> <<"A1">>, seq |-> 1],
                     [cb |-> 2, serial |-> <<"A1">>, seq |-> 1],
                     [cb |-> 1, serial |-> <<"A2">>, seq |-> 2],
                     [cb |-> 2, serial |-> <<"A2">>, seq |-> 2] >>

\* C20: when a message_wrapper takes a message, a payload that fails
\* validation (validator present) is dropped without invoking the user-level
\* handler, any other payload invokes it once; neither a validation failure
\* nor a handler exception leaves the wrapper: the dispatch loop stays alive
\* and the subscription stays in place.
C20_WrapperIsolates ==
    [][Takes =>
          LET m == Head(message_queue)
          IN  /\ IF validate /\ m.payload = "bad"
                 THEN delivered' = delivered
                 ELSE /\ Len(delivered') = Len(delivered) + 1
                      /\ delivered'[Len(delivered')].seq = m.seq
              /\ ProcsAlive' = ProcsAlive
              /\ raised' = raised
              /\ handlers' = handlers]_vars

\* C20 witness: with validation enabled the first message was invalid and
\* dropped, the handler raised on the second, and the third was delivered.
C20_Witness ==
    /\ validate
    /\ Len(sent) = 3
    /\ sent[1].payload = "bad"
    /\ Len(delivered) = 2
    /\ delivered[1].seq = 2 /\ delivered[1].raised
    /\ delivered[2].seq = 3 /\ ~delivered[2].raised

\* ---------------------------------------------------------------- C21
\* a call of _publish_message, direct or through a send of the master, that
\* hands a message to the transport in this step
SendApis == {"core", "send_order", "send_instant_action"}

HandsOver ==
    /\ last_publish'.n = last_publish.n + 1
    /\ last_publish'.api \in SendApis
    /\ Len(published') = Len(published) + 1

\* {interface}/v{major}/{manufacturer}/{serial}/{messageType} for the
\* interface uagv and the version 2.1.0
TopicOf(manufacturer, serial, message_type) ==
    <<"uagv", "/", "v", "2", "/">> \o manufacturer \o <<"/">> \o serial
        \o <<"/", message_type>>

OwnTopicOf(message_type) == TopicOf(<<"M">>, <<"S">>, message_type)

HandedTopic == published'[Len(published')].topic

C22_ConnectIdempotent ==
    [][(state = "CONNECTED" /\ ApiConnect) =>
          /\ conn'[0] = "idle"
          /\ UNCHANGED <<state, connection_event, message_queue, handlers,
                         wildcard_handlers, running, net, conn, delay, waits,
                         nNew, nGet, busy, arrived, dispatched, raised, subs,
                         live>>
          /\ UNCHANGED coreVars
       ]_vars

\* connect() has been called on a connected session, which is still
\* connected with its transport up
C22_Witness ==
    /\ "mqtt.connect" \in repeated
    /\ state = "CONNECTED"
    /\ net = "up"
    /\ conn[0] = "idle"

\* ---------------------------------------------------------------- C23
\* C23: connect() called on a client that is marked connected returns at its
\* first line: the session's connect() is not called (state, callers and
\* transport unchanged), nothing is subscribed (handlers and the broker's
\* filters unchanged) and the post-connect hook does not run (nothing
\* published, no step recorded).
C23_ClientConnectIdempotent ==
    [][(connected /\ ClientConnect) =>
          /\ conn'[0] = "idle"
          /\ UNCHANGED sessionVars
          /\ UNCHANGED coreVars
       ]_vars

\* connect() has been called on a connected client: it is still connected
\* and its last full connect() is the only one recorded
C23_Witness ==
    /\ "client.connect" \in repeated
    /\ connected
    /\ state = "CONNECTED"
    /\ Len(steps) = 5

\* ---------------------------------------------------------------- C24
\* C24: when disconnect() returns on the session, whatever the state before,
\* the state is DISCONNECTED and _running is false (the dispatch loop is told
\* to stop); a disconnect() called in that situation changes nothing and
\* makes no call to the transport.
C24_DisconnectIdempotent ==
    [][Disconnect =>
          /\ state' = "DISCONNECTED"
          /\ running' = FALSE
          /\ (state = "DISCONNECTED" /\ ~running) =>
                 UNCHANGED <<state, connection_event, message_queue, handlers,
                             wildcard_handlers, running, net, conn, delay, waits,
                             nNew, nGet, busy, arrived, dispatched, raised, subs,
                             live, coreVars>>
       ]_vars

\* disconnect() was called on a connected session and then again while the
\* transport was still closing
C24_Witness ==
    /\ "mqtt.disconnect" \in repeated
    /\ state = "DISCONNECTED"
    /\ ~running
    /\ net = "closing"

\* ---------------------------------------------------------------- C25
RoleSendApis ==
    {"send_factsheet", "send_state", "update_connection", "send_order",
     "send_instant_action"}

\* C25: a send method of a role client (send_factsheet, send_state,
\* update_connection, send_order, send_instant_action) returns True when the
\* session's publish() returned True, and returns the value False, no
\* exception, when the session's publish() returned False or raised.
C25_SendReturnsPublishOutcome ==
    last_publish.api \in RoleSendApis =>
        /\ last_publish.transport = "true" => last_publish.returned = "True"
        /\ last_publish.transport \in {"false", "raised"} =>
               last_publish.returned = "False"

\* the master sent an order that the transport refused, and send_order gave
\* False
C25_Witness ==
    /\ last_publish.api = "send_order"
    /\ connected
    /\ state = "CONNECTED"
    /\ last_publish.ack = "rejected"
    /\ last_publish.transport = "false"
    /\ last_publish.returned = "False"
    /\ Len(published) = 1

\* ---------------------------------------------------------------- C26
\* the topic filters in a dictionary of handlers
Filters(d) == {d[i].key : i \in 1..Len(d)}

OwnCommandTopics ==
    {TopicOf(<<"M">>, <<"S">>, "order"), TopicOf(<<"M">>, <<"S">>, "instantActions")}

HasSlash(name) == \E i \in 1..Len(name) : name[i] = "/"

\* an identity whose interface, manufacturer and serial number hold no '/'
\* and whose major version is numeric
ValidIdentity(tm) ==
    /\ ~HasSlash(tm.interface)
    /\ ~HasSlash(tm.manufacturer)
    /\ ~HasSlash(tm.serial_number)
    /\ Len(tm.major_version) > 0
    /\ \A i \in 1..Len(tm.major_version) :
          tm.major_version[i] \in {"0", "1", "2", "3", "4", "5", "6", "7", "8", "9"}

\* C27: for a valid identity and each of the six message types, parse_topic
\* of the topic that get_publish_topic built succeeds and gives the
\* identity's manufacturer and serial number and the message type.
C27_ParseInvertsPublishTopic ==
    (topic_out.op = "parse_topic" /\ topic_out.built # ""
         /\ ValidIdentity(topic_manager)) =>
        /\ topic_out.info.ok
        /\ topic_out.info.manufacturer = topic_manager.manufacturer
        /\ topic_out.info.serialNumber = topic_manager.serial_number
        /\ topic_out.info.messageType = <<topic_out.built>>

\* the instantActions topic of uagv, 10, A.B, M was built and parsed
C27_Witness ==
    /\ topic_manager = [interface |-> <<"uagv">>, major_version |-> <<"1", "0">>,
                        manufacturer |-> <<"A", ".", "B">>,
                        serial_number |-> <<"M">>]
    /\ topic_out.op = "parse_topic"
    /\ topic_out.built = "instantActions"
    /\ topic_out.topic = <<"uagv", "/", "v", "1", "0", "/", "A", ".", "B", "/",
                           "M", "/", "instantActions">>
    /\ topic_out.info.ok
    /\ topic_out.info.manufacturer = <<"A", ".", "B">>

\* ---------------------------------------------------------------- C28
\* the positions of the '/' characters of a topic, in order
RECURSIVE SlashesFrom(_, _)
SlashesFrom(topic, i) ==
    IF i > Len(topic) THEN <<>>
    ELSE (IF topic[i] = "/" THEN <<i>> ELSE <<>>) \o SlashesFrom(topic, i + 1)

\* the k-th of the segments of a topic that has five of them
Segment(topic, k) ==
    LET at == <<0>> \o SlashesFrom(topic, 1) \o <<Len(topic) + 1>>
    IN  SubSeq(topic, at[k] + 1, at[k + 1] - 1)

\* 'v' followed by one or more digits
IsVersionTag(seg) ==
    /\ Len(seg) >= 2
    /\ seg[1] = "v"
    /\ \A i \in 2..Len(seg) :
          seg[i] \in {"0", "1", "2", "3", "4", "5", "6", "7", "8", "9"}

\* a topic that parse_topic has to refuse
Malformed(tm, topic) ==
    IF Len(SlashesFrom(topic, 1)) # 4 THEN TRUE
    ELSE \/ Segment(topic, 1) # tm.interface
         \/ ~IsVersionTag(Segment(topic, 2))
         \/ Segment(topic, 5) \notin {<<"order">>, <<"state">>, <<"connection">>,
                                        <<"factsheet">>, <<"instantActions">>,
                                        <<"visualization">>}

\* C28: parse_topic fails, and gives no field of the topic, for every topic
\* that has not five segments, whose first segment is not the interface name
\* of the TopicManager, whose second segment is not 'v' followed by one or
\* more digits, or whose last segment is not one of the six message types.
C28_ParseRefusesMalformed ==
    (topic_out.op = "parse_topic" /\ Malformed(topic_manager, topic_out.topic)) =>
        /\ ~topic_out.ok
        /\ topic_out.info = NoTopicInfo

\* uagv/v2/M/M/status, well formed but for its message type, was refused by
\* the TopicManager of uagv, 2.1.0, M, M
C28_Witness ==
    /\ topic_manager = [interface |-> <<"uagv">>, major_version |-> <<"2">>,
                        manufacturer |-> <<"M">>, serial_number |-> <<"M">>]
    /\ topic_out.op = "parse_topic"
    /\ topic_out.topic = <<"uagv", "/", "v", "2", "/", "M", "/", "M", "/", "status">>
    /\ ~topic_out.ok

\* ---------------------------------------------------------------- C29
\* the topic has five segments, the serial in fourth position, and the
\* interface, version, manufacturer and message type of the subscription
SameButSerial(tm, message_type, topic) ==
    /\ Len(SlashesFrom(topic, 1)) = 4
    /\ Segment(topic, 1) = tm.interface
    /\ Segment(topic, 2) = <<"v">> \o tm.major_version
    /\ Segment(topic, 3) = tm.manufacturer
    /\ Segment(topic, 5) = <<message_type>>

\* C29: the subscription topic built with all_serials=True for a message
\* type matches a concrete topic, under the wildcard matcher of _route, if
\* and only if the concrete topic has the interface, version, manufacturer
\* and message type of the subscription and one serial segment in fourth
\* position.
C29_WildcardSerialMatches ==
    \A t \in MESSAGE_TYPES :
        (/\ route_out.called
         /\ route_out.pattern =
               GetSubscriptionTopicOf(topic_manager, t, FALSE, TRUE).topic)
        => ((route_out.handler # NoHandler)
               <=> SameButSerial(topic_manager, t, route_out.topic))

\* ---------------------------------------------------------------- C30
\* the message_wrapper of the k-th registration is in the session's tables
Realized(exact, wild, k) ==
    \/ \E i \in 1..Len(exact) : exact[i].val = 0 - k
    \/ \E i \in 1..Len(wild) : wild[i].val = 0 - k

\* C30: register_handler only appends to the registration list and makes no
\* call on the transport: nothing else of the client or of the session
\* changes.  A registration gets its subscription only in a connect() that
\* the client starts while it is not marked connected, a client marked
\* connected loses the mark only in a disconnect() that leaves the session
\* DISCONNECTED, and a message is delivered only to the handler of a
\* registration that has its subscription: a handler registered after
\* connect() has no subscription and receives nothing until a disconnect()
\* followed by a connect().
C30_RegisterOnlyAppends ==
    [][
        /\ (Len(registered_handlers') > Len(registered_handlers)) =>
             /\ SubSeq(registered_handlers', 1, Len(registered_handlers))
                   = registered_handlers
             /\ Len(registered_handlers') = Len(registered_handlers) + 1
             /\ UNCHANGED <<sessionVars, connected, published, steps, inboundVars>>
        /\ (\A k \in 1..Len(registered_handlers') :
                (/\ ~Realized(handlers, wildcard_handlers, k)
                 /\ Realized(handlers', wildcard_handlers', k))
                => ~connected)
        /\ (connected /\ ~connected') => state' = "DISCONNECTED"
        /\ (Len(delivered') > Len(delivered)) =>
             Realized(handlers, wildcard_handlers, delivered'[Len(delivered')].reg)
      ]_vars

\* the client is connected and holds a third registration, for the orders
\* of every serial, that has no subscription: the order published for
\* serial A was not forwarded to the client
C30_Witness ==
    /\ connected
    /\ state = "CONNECTED"
    /\ Len(registered_handlers) = 3
    /\ registered_handlers[3].all_serials
    /\ ~Realized(handlers, wildcard_handlers, 3)
    /\ GetSubscriptionTopic("order", FALSE, TRUE) \notin live
    /\ \E i \in 1..Len(sent) : sent[i].serial = "A"
    /\ message_queue = <<>>
    /\ delivered = <<>>

\* ---------------------------------------------------------------- C31
\* the edges of the documented state machine
DocumentedEdges ==
    {<<"DISCONNECTED", "CONNECTING">>, <<"CONNECTING", "CONNECTED">>,
     <<"CONNECTED", "DISCONNECTED">>, <<"CONNECTED", "RECONNECTING">>,
     <<"RECONNECTING", "CONNECTED">>, <<"RECONNECTING", "DISCONNECTED">>}

\* C31: an unexpected drop takes a CONNECTED session to RECONNECTING, and
\* the state changes only along the edges of the documented state machine.
C31_DocumentedStateMachine ==
    [][
        /\ (state = "CONNECTED" /\ OnDrop(MaxRecon)) => state' = "RECONNECTING"
        /\ (state' # state) => <<state, state'>> \in DocumentedEdges
      ]_vars

\* ---------------------------------------------------------------- C32
\* C32: at most one _message_processor task is alive in every reachable
\* state.
C32_OneDispatchLoop == ProcsAlive <= 1

\* ---------------------------------------------------------------- C33
\* a connect() call, of the API caller or of a _reconnect task, has started
\* and not returned
ConnectInProgress == \E c \in Callers : conn[c] \in {"transport", "wait", "woken"}

\* C33: whenever the state is CONNECTED and no connect() call is in
\* progress, a _message_processor task is alive.
C33_ConnectedHasDispatchLoop ==
    (state = "CONNECTED" /\ ~ConnectInProgress) => ProcsAlive >= 1

\* ---------------------------------------------------------------- C34
\* C34: when disconnect() has taken the stop flag down and no connect()
\* raises it again, every _message_processor task eventually ends: after
\* the message in progress, or after one poll of the queue, also when the
\* queue stays empty.
C34_LoopExitsAfterDisconnect ==
    <>[](~running) => <>[](ProcsAlive = 0)

\* disconnect() was called on a connected session whose loop is suspended
\* in queue.get() on an empty queue
C34_Witness ==
    /\ ~running
    /\ state = "DISCONNECTED"
    /\ nGet = 1
    /\ message_queue = <<>>
    /\ busy = {}

\* ---------------------------------------------------------------- C35
\* C35: the disconnect callback with reason code 0 sets the state to
\* DISCONNECTED and starts no _reconnect task; a _reconnect task is created
\* only in a step of the disconnect callback with a reason code other
\* than 0.
C35_GracefulStartsNoReconnect ==
    [][
        /\ OnDisconnectGraceful =>
              /\ state' = "DISCONNECTED"
              /\ \A r \in ReconIds : conn'[r] = conn[r]
        /\ (\E r \in ReconIds : conn[r] = "free" /\ conn'[r] # "free")
              => OnDrop(BackoffRecon)
      ]_vars

\* the callback of an explicit disconnect() has run on a session that was
\* connected: the state is DISCONNECTED and no _reconnect task exists
C35_Witness ==
    /\ net = "down"
    /\ state = "DISCONNECTED"
    /\ ~running
    /\ ~connection_event
    /\ nGet = 1
    /\ \A r \in ReconIds : conn[r] = "free"

\* ---------------------------------------------------------------- C36
\* C36: at most one _reconnect task exists in every reachable state.
C36_OneReconnectLoop ==
    Cardinality({r \in ReconIds : ReconActive(r)}) <= 1

\* ---------------------------------------------------------------- C37
\* a step of the session made by the transport's callbacks or by a
\* _reconnect task
SessionOwnStep ==
    \/ OnDrop(BackoffRecon)
    \/ OnConnect
    \/ OnDisconnectGraceful
    \/ \E r \in ReconIds : ReconnectStart(r) \/ ReconnectWake(r)
                               \/ TransportConnectOk(r) \/ ConnectResume(r)

\* C37: _connected changes only in the client's connect() and disconnect();
\* a drop and the steps of the reconnect loop leave it unchanged; and a
\* publish made while _connected is true and the session is not CONNECTED
\* hands nothing to the transport and ends in an error for its caller.
C37_ConnectedFlagOwnedByClient ==
    [][
        /\ (connected' # connected) =>
              (ClientConnect \/ ClientConnectResume \/ ClientDisconnect(FALSE))
        /\ SessionOwnStep => (connected' = connected)
        /\ (/\ last_publish'.n = last_publish.n + 1
            /\ connected
            /\ state # "CONNECTED") =>
              /\ last_publish'.result = "Error"
              /\ last_publish'.returned = "False"
              /\ published' = published
      ]_vars

\* after a drop the client is still marked connected, the session is not
\* CONNECTED, and the publish made in that window failed
C37_Witness ==
    /\ connected
    /\ state # "CONNECTED"
    /\ \E r \in ReconIds : ReconActive(r)
    /\ last_publish.n = 1
    /\ last_publish.transport = "raised"
    /\ last_publish.result = "Error"

\* ---------------------------------------------------------------- C38
\* C38 as stated: a message that is in the queue when disconnect() is called
\* waits for the dispatch loop of the next successful connect(): while the
\* stop flag is down no message leaves the queue.
C38_QueuedWaitForNextConnect ==
    [][~running => Len(message_queue') >= Len(message_queue)]_vars

\* C38, amended: disconnect() leaves the queue and both handler maps
\* unchanged; a message enters the queue at its tail and leaves it only at
\* its head, taken by a dispatch loop that starts the handler _route finds
\* for it (or finds none); handlers are started in the order of arrival.
C38_DisconnectKeepsQueue ==
    [][
        /\ Disconnect => UNCHANGED <<message_queue, handlers, wildcard_handlers>>
        /\ (message_queue' # message_queue) =>
              \/ /\ message_queue # <<>>
                 /\ message_queue' = Tail(message_queue)
                 /\ nGet > 0
                 /\ LET m == Head(message_queue)
                        h == Route(handlers, wildcard_handlers, m.topic)
                    IN  IF h = NoHandler THEN dispatched' = dispatched
                        ELSE dispatched' = Append(dispatched,
                                 [seq |-> m.seq, topic |-> m.topic, handler |-> h])
              \/ /\ Len(message_queue') = Len(message_queue) + 1
                 /\ SubSeq(message_queue', 1, Len(message_queue)) = message_queue
        /\ \A i, j \in 1..Len(dispatched') :
              i < j => dispatched'[i].seq < dispatched'[j].seq
      ]_vars

\* disconnect() was called with two messages in the queue, which are still
\* there in their order of arrival after the transport's callback
C38_Witness ==
    /\ ~running
    /\ state = "DISCONNECTED"
    /\ net = "down"
    /\ Len(message_queue) = 2
    /\ message_queue[1].seq = 1
    /\ message_queue[2].seq = 2
    /\ wildcard_handlers # <<>>

\* ---------------------------------------------------------------- C39
\* the subscription topic of the k-th registration
TopicOfReg(regs, k) ==
    GetSubscriptionTopic(regs[k].message_type, regs[k].all_manufacturers,
                         regs[k].all_serials)

\* the registrations among the first n whose subscription topic matches topic
MatchingRegs(regs, n, topic) ==
    {k \in 1..n : ReMatch(Regex(TopicOfReg(regs, k)), topic)}

SetMin(S) == CHOOSE x \in S : \A y \in S : x <= y

SetMax(S) == CHOOSE x \in S : \A y \in S : x >= y

\* the registration a message on topic is for, the first n registrations
\* being subscribed: the subscription topic is the message's topic itself
\* if that was registered, or else the matching one that was registered
\* first, and the handler is that of the last registration of this topic;
\* 0 when no registration matches
ExpectedReg(regs, n, topic) ==
    LET matching == MatchingRegs(regs, n, topic)
        exact == {k \in matching : ~IsWildcard(TopicOfReg(regs, k))}
        chosen == IF exact # {} THEN topic
                  ELSE TopicOfReg(regs, SetMin(matching))
    IN  IF matching = {} THEN 0
        ELSE SetMax({k \in 1..n : TopicOfReg(regs, k) = chosen})

\* the subscribes of a connect()
SubscribeCount(s) == Cardinality({i \in 1..Len(s) : s[i].op = "subscribe"})

\* each key is held once
SingleKeys(d) == \A i, j \in 1..Len(d) : d[i].key = d[j].key => i = j

\* C39: when registrations resolve to the same subscription topic the
\* session holds one handler for it: a connect() that marks the client
\* connected leaves each topic once in the session's tables, a message is
\* then routed to the handler of the last registration of the topic that is
\* first, by the position of its first registration, among the matching
\* ones, and a message delivered while the client is marked connected goes
\* to that handler only.
C39_LastRegistrationWins ==
    [][
        /\ (~connected /\ connected') =>
             /\ SingleKeys(handlers') /\ SingleKeys(wildcard_handlers')
             /\ \A m \in {"M", "N"} :
                   Route(handlers', wildcard_handlers', AgvTopic(m, "A", "connection"))
                     = 0 - ExpectedReg(registered_handlers', Len(registered_handlers'),
                                       AgvTopic(m, "A", "connection"))
        /\ (connected /\ Len(delivered') > Len(delivered)) =>
             /\ Len(delivered') = Len(delivered) + 1
             /\ delivered'[Len(delivered')].reg
                   = ExpectedReg(registered_handlers, SubscribeCount(steps),
                                 Head(message_queue).topic)
      ]_vars

\* the fifth registration repeats the topic of the second, the fourth is
\* for the client's own manufacturer only: the connection message of an AGV
\* of that manufacturer, which both topics match, was delivered to the
\* handler of the fifth registration
C39_Witness ==
    /\ connected
    /\ Len(registered_handlers) = 5
    /\ ~registered_handlers[4].all_manufacturers
    /\ registered_handlers[5].all_manufacturers
    /\ \E i \in 1..Len(sent) : sent[i].manufacturer = "M"
    /\ \E i \in 1..Len(delivered) : delivered[i].reg = 5

====
